---- MODULE Spec2Model ----
(***************************************************************************)
(* Literature Aggregation Engine of OpenDeepResearcher:                    *)
(* RobustAcademicSearcher (src/utils/academic_search.py): term planning,   *)
(* source adapters, the fallback orchestrator search_all_sources, and the  *)
(* deduplication / cleaning of the gathered records.                       *)
(*                                                                         *)
(* Text is modelled as a sequence of one-character strings, so that strip, *)
(* lower, the regular expressions and the whitespace clean-up are computed *)
(* character by character.  Python's None and the empty string / list are  *)
(* both the empty sequence: the code only ever tests them for truthiness.  *)
(***************************************************************************)
EXTENDS Integers, Sequences, FiniteSets, TLC

VARIABLES
    keywords,               \* argument: list of keyword texts
    research_question,      \* argument: text (<<>> for None or "")
    sources,                \* argument: list of source names
    max_results_per_source, \* self.max_results_per_source
    pc,                     \* position inside the operation being run
    search_terms_sets,      \* result of prepare_search_terms
    srcIdx,                 \* index of the source being processed
    setIdx,                 \* index of the next term set to try for it
    articles,               \* local: records accumulated for the source
    method_used,            \* local: method tag of the last successful set
    best_search_terms,      \* local: terms of the last successful set
    all_articles,           \* local: records accumulated over all sources
    successful_methods,     \* self.successful_methods
    failed_methods,         \* self.failed_methods
    corpus,                 \* the DataFrame returned by search_all_sources
    callLog,                \* adapter calls made so far (observation only)
    df,                     \* DataFrame handed to remove_duplicates
    df_first,               \* its value after the first remove_duplicates
    adapter_out,            \* what the per-source search_* method returned
    terms_out,              \* what search_single_source_with_terms returned
    run,                    \* number of the search run of this searcher
    stats_first,            \* get_statistics() after the first run
    world,                  \* the answers of the sources, where fixed
    corpus_first,           \* the DataFrame the first run returned
    candidate,              \* title, abstract and url handed to the filters
    verdict,                \* what the two validity filters returned
    articles_df,            \* analysis page: the screened articles
    existing_pdfs,          \* analysis page: uploads_dir.glob("*.pdf")
    included_articles,      \* analysis page: the rows marked Include
    pdfIdx,                 \* index of the PDF the scan loop is at
    assigned_articles,      \* scan: titles that received a PDF in this scan
    unmatched_pdfs,         \* scan: the manual review list
    updated_count,          \* scan: number of auto-assignments
    scanLog,                \* what the scan did with each PDF (observation)
    scanNo,                 \* number of the scan
    articles_first          \* the frame as the first scan left it

vars == <<keywords, research_question, sources, max_results_per_source, pc,
          search_terms_sets, srcIdx, setIdx, articles, method_used,
          best_search_terms, all_articles, successful_methods, failed_methods,
          corpus, callLog, df, df_first, adapter_out, terms_out,
          run, stats_first, world, corpus_first, candidate, verdict,
          articles_df, existing_pdfs, included_articles, pdfIdx,
          assigned_articles, unmatched_pdfs, updated_count, scanLog, scanNo,
          articles_first>>

runVars == <<run, stats_first, world, corpus_first>>
filterVars == <<candidate, verdict>>
matcherVars == <<articles_df, existing_pdfs, included_articles, pdfIdx,
                 assigned_articles,
                 unmatched_pdfs, updated_count, scanLog, scanNo,
                 articles_first>>

-----------------------------------------------------------------------------
(* Bounds of the model *)

MaxChunks == 3
MaxKeywords == 7
MaxPerCall == 2
MaxRecords == 3
MaxSearchKeywords == 2
MaxArticles == 2
MaxPdfs == 2
MaxScans == 2
MaxRuns == 2

-----------------------------------------------------------------------------
(* Text helpers: Python str methods and the character classes of re *)

UPPER == <<"A","B","C","D","E","F","G","H","I","J","K","L","M",
           "N","O","P","Q","R","S","T","U","V","W","X","Y","Z">>
LOWER == <<"a","b","c","d","e","f","g","h","i","j","k","l","m",
           "n","o","p","q","r","s","t","u","v","w","x","y","z">>
DIGITS == {"0","1","2","3","4","5","6","7","8","9"}

IsSpace(c) == c \in {" ", "\t", "\n"}
IsLetter(c) == \E i \in 1..26 : c = UPPER[i] \/ c = LOWER[i]
IsWordChar(c) == IsLetter(c) \/ c \in DIGITS \/ c = "_"

LowerChar(c) ==
    IF \E i \in 1..26 : c = UPPER[i]
    THEN LOWER[CHOOSE i \in 1..26 : c = UPPER[i]]
    ELSE c

Lower(s) == [i \in 1..Len(s) |-> LowerChar(s[i])]

\* str.strip(): drop leading and trailing whitespace
Strip(s) ==
    IF \A i \in 1..Len(s) : IsSpace(s[i]) THEN <<>>
    ELSE LET b == CHOOSE i \in 1..Len(s) :
                    ~IsSpace(s[i]) /\ \A j \in 1..(i-1) : IsSpace(s[j])
             e == CHOOSE i \in 1..Len(s) :
                    ~IsSpace(s[i]) /\ \A j \in (i+1)..Len(s) : IsSpace(s[j])
         IN SubSeq(s, b, e)

\* the characters of s as one string value
RECURSIVE Text(_)
Text(s) == IF s = <<>> THEN "" ELSE s[1] \o Text(Tail(s))

\* Python's `sub in s` for a set of candidate substrings given as strings
ContainsAny(s, subs) ==
    \E i \in 1..Len(s) : \E j \in i..Len(s) : Text(SubSeq(s, i, j)) \in subs

Take(s, n) == SubSeq(s, 1, IF n < Len(s) THEN n ELSE Len(s))

\* Python's `sub in s`
Contains(s, sub) ==
    \/ sub = <<>>
    \/ \E i \in 1..(Len(s) - Len(sub) + 1) : SubSeq(s, i, i + Len(sub) - 1) = sub

\* Python's `sub in s` for a literal sub
ContainsText(s, sub) ==
    \E i \in 1..(Len(s) - Len(sub) + 1) :
        Text(SubSeq(s, i, i + Len(sub) - 1)) = sub

\* str.split(): the maximal runs of non-whitespace characters
RECURSIVE SplitFrom(_, _)
SplitFrom(s, i) ==
    IF i > Len(s) THEN <<>>
    ELSE IF IsSpace(s[i]) THEN SplitFrom(s, i + 1)
         ELSE LET e == CHOOSE j \in i..Len(s) :
                          /\ \A k \in i..j : ~IsSpace(s[k])
                          /\ (j = Len(s) \/ IsSpace(s[j + 1]))
              IN <<SubSeq(s, i, e)>> \o SplitFrom(s, e + 1)

Split(s) == SplitFrom(s, 1)

\* order-preserving removal of later elements with an already seen key;
\* keys[i] is the key of s[i]
RECURSIVE UniqueBy(_, _, _)
UniqueBy(s, keys, seen) ==
    IF s = <<>> THEN <<>>
    ELSE IF keys[1] \in seen THEN UniqueBy(Tail(s), Tail(keys), seen)
         ELSE <<s[1]>> \o UniqueBy(Tail(s), Tail(keys), seen \cup {keys[1]})


\* maximal runs of \w characters of s, as [b |-> first, e |-> last]
RunEnd(s, i) ==
    CHOOSE j \in i..Len(s) :
        /\ \A k \in i..j : IsWordChar(s[k])
        /\ (j = Len(s) \/ ~IsWordChar(s[j+1]))

RECURSIVE RunsFrom(_, _)
RunsFrom(s, i) ==
    IF i > Len(s) THEN <<>>
    ELSE IF ~IsWordChar(s[i]) THEN RunsFrom(s, i + 1)
         ELSE LET e == RunEnd(s, i)
              IN <<[b |-> i, e |-> e]>> \o RunsFrom(s, e + 1)

Runs(s) == RunsFrom(s, 1)
RunText(s, r) == SubSeq(s, r.b, r.e)

-----------------------------------------------------------------------------
(* Term Planner *)

\* extract_search_terms_from_research_question: the stop_words set
stop_words ==
    {"is", "are", "was", "were", "can", "could", "will", "would", "should",
     "shall", "does", "do", "did", "has", "have", "had", "the", "a", "an",
     "and", "or", "but", "in", "on", "at", "to", "for", "of", "with", "by",
     "from", "about", "into", "through", "there", "what", "which", "who",
     "when", "where", "why", "how", "that", "this", "these", "those",
     "between", "among", "relationship", "correlation", "effect", "impact",
     "influence", "association", "comparison"}

\* extract_key_phrases: the nouns of the second pattern (with optional s / es)
outcome_nouns ==
    {"level", "levels", "rate", "rates", "effect", "effects", "factor",
     "factors", "method", "methods", "technique", "techniques", "approache",
     "approaches"}

\* extract_key_phrases: phrases containing one of these are dropped
common_phrases == {"there is", "there are", "can be", "will be"}

\* re.sub(r'[^\w\s]', ' ', text)
RemovePunctuation(s) ==
    [i \in 1..Len(s) |-> IF IsWordChar(s[i]) \/ IsSpace(s[i]) THEN s[i] ELSE " "]

\* a run that [A-Z][a-z]+ (IGNORECASE) matches from boundary to boundary
IsAlphaWord(s, r) ==
    /\ r.e - r.b + 1 >= 2
    /\ \A k \in r.b..r.e : IsLetter(s[k])

\* first pattern: maximal chains of alphabetic words, non-overlapping
RECURSIVE CapitalizedPhrases(_, _, _)
CapitalizedPhrases(s, runs, i) ==
    IF i > Len(runs) THEN <<>>
    ELSE IF ~IsAlphaWord(s, runs[i]) THEN CapitalizedPhrases(s, runs, i + 1)
         ELSE LET j == CHOOSE j \in i..Len(runs) :
                         /\ \A k \in i..j : IsAlphaWord(s, runs[k])
                         /\ (j = Len(runs) \/ ~IsAlphaWord(s, runs[j+1]))
              IN <<SubSeq(s, runs[i].b, runs[j].e)>>
                 \o CapitalizedPhrases(s, runs, j + 1)

\* second pattern: a word followed by an outcome noun
RECURSIVE OutcomePhrases(_, _, _)
OutcomePhrases(s, runs, i) ==
    IF i + 1 > Len(runs) THEN <<>>
    ELSE IF Text(Lower(RunText(s, runs[i+1]))) \in outcome_nouns
         THEN <<SubSeq(s, runs[i].b, runs[i+1].e)>>
              \o OutcomePhrases(s, runs, i + 2)
         ELSE OutcomePhrases(s, runs, i + 1)

\* third pattern: consecutive groups of three (at the end: two) words
RECURSIVE GeneralPhrases(_, _, _)
GeneralPhrases(s, runs, i) ==
    IF i + 1 > Len(runs) THEN <<>>
    ELSE IF i + 2 <= Len(runs)
         THEN <<SubSeq(s, runs[i].b, runs[i+2].e)>>
              \o GeneralPhrases(s, runs, i + 3)
         ELSE <<SubSeq(s, runs[i].b, runs[i+1].e)>>

extract_key_phrases(text) ==
    LET text_clean == RemovePunctuation(text)
        runs == Runs(text_clean)
        phrases == CapitalizedPhrases(text_clean, runs, 1)
                   \o OutcomePhrases(text_clean, runs, 1)
                   \o GeneralPhrases(text_clean, runs, 1)
        Keep(p) == /\ Len(Strip(p)) > 5
                   /\ ~ContainsAny(Lower(p), common_phrases)
        filtered_phrases == [i \in 1..Len(SelectSeq(phrases, Keep)) |->
                                Strip(SelectSeq(phrases, Keep)[i])]
        unique_phrases == UniqueBy(filtered_phrases, filtered_phrases, {})
    IN Take(unique_phrases, 8)

\* re.findall(r'\b[a-zA-Z][a-zA-Z0-9]*\b', s)
FindWords(s) ==
    LET IsWord(r) == /\ IsLetter(s[r.b])
                     /\ \A k \in r.b..r.e : s[k] # "_"
        ws == SelectSeq(Runs(s), IsWord)
    IN [i \in 1..Len(ws) |-> RunText(s, ws[i])]

extract_search_terms_from_research_question(rq) ==
    IF rq = <<>> \/ Strip(rq) = <<>> THEN <<>>
    ELSE LET rq_clean == Strip(Lower(rq))
             words == FindWords(rq_clean)
             Meaningful(w) == Len(w) > 2 /\ Text(Lower(w)) \notin stop_words
             meaningful_words == SelectSeq(words, Meaningful)
             key_phrases == extract_key_phrases(rq)
             search_terms == key_phrases \o Take(meaningful_words, 10)
             lowered == [i \in DOMAIN search_terms |-> Lower(search_terms[i])]
             unique_terms == UniqueBy(search_terms, lowered, {})
         IN Take(unique_terms, 15)

\* keywords[i:i+chunk_size] for i in range(0, len(keywords), chunk_size)
RECURSIVE Chunks(_, _, _)
Chunks(kws, i, chunk_size) ==
    IF i > Len(kws) THEN <<>>
    ELSE LET hi == IF i + chunk_size - 1 < Len(kws)
                   THEN i + chunk_size - 1 ELSE Len(kws)
             chunk == SubSeq(kws, i, hi)
         IN (IF Len(chunk) >= 2 THEN <<chunk>> ELSE <<>>)
            \o Chunks(kws, i + chunk_size, chunk_size)

\* the combinations without the limit of four
create_keyword_combinations_unlimited(kws) ==
    IF kws = <<>> THEN <<>>
    ELSE <<kws>>
         \o (IF Len(kws) > 5 THEN <<Take(kws, 5)>> ELSE <<>>)
         \o (IF Len(kws) > 3 THEN <<Take(kws, 3)>> ELSE <<>>)
         \o Chunks(kws, 1, 5)

\* the limit taken as five combinations
create_keyword_combinations_up_to_five(kws) ==
    Take(create_keyword_combinations_unlimited(kws), 5)

create_keyword_combinations(kws) ==
    IF kws = <<>> THEN <<>>
    ELSE LET combinations ==
                 <<kws>>
                 \o (IF Len(kws) > 5 THEN <<Take(kws, 5)>> ELSE <<>>)
                 \o (IF Len(kws) > 3 THEN <<Take(kws, 3)>> ELSE <<>>)
                 \o Chunks(kws, 1, 5)
         IN Take(combinations, 4)

\* [kw.strip() for kw in keywords if kw.strip()]
CleanKeywords(kws) ==
    LET NonBlank(kw) == Strip(kw) # <<>>
        kept == SelectSeq(kws, NonBlank)
    IN [i \in 1..Len(kept) |-> Strip(kept[i])]

fallback_terms ==
    << <<"r","e","s","e","a","r","c","h">>, <<"s","t","u","d","y">>,
       <<"a","n","a","l","y","s","i","s">> >>

\* a keyword combination gets its place in the list as priority, from 1
keyword_priority_from_one(i) == 1 + (i - 1)

\* priority of the i-th keyword combination (i counted from 1): 2 + index
keyword_priority(i) == 2 + (i - 1)

prepare_search_terms(kws, rq) ==
    LET rq_terms == IF rq # <<>> /\ Strip(rq) # <<>>
                    THEN extract_search_terms_from_research_question(rq)
                    ELSE <<>>
        rq_sets == IF rq_terms # <<>>
                   THEN << [terms |-> rq_terms, type |-> "research_question",
                            priority |-> 1,
                            description |-> "Research question based terms"] >>
                   ELSE <<>>
        combos == IF kws # <<>> /\ CleanKeywords(kws) # <<>>
                  THEN create_keyword_combinations(CleanKeywords(kws))
                  ELSE <<>>
        kw_sets == [i \in 1..Len(combos) |->
                       [terms |-> combos[i], type |-> "keywords",
                        priority |-> keyword_priority(i),
                        description |-> "Keyword combination " \o ToString(i)]]
        sets == rq_sets \o kw_sets
    IN IF sets = <<>>
       THEN << [terms |-> fallback_terms, type |-> "fallback", priority |-> 10,
                description |-> "Basic fallback terms"] >>
       ELSE sets


-----------------------------------------------------------------------------
(* Inputs the specifications draw from *)

\* pieces a research question is put together from
RQChunks ==
    { <<"a">>, <<"d","a","d">>, <<" ">>, <<"?">>, <<"D","o">>,
      <<"r","a","t","e","s">>, <<"c","a","n"," ","b","e">> }

RECURSIVE Concatenations(_)
Concatenations(n) ==
    IF n = 0 THEN {<<>>}
    ELSE LET shorter == Concatenations(n - 1)
         IN shorter \cup {t \o c : t \in shorter, c \in RQChunks}

ResearchQuestions == Concatenations(MaxChunks)

KeywordTags == <<"b","c","e","f","g","h","i","j","k","l","m","n">>

\* the i-th keyword a user typed: blank, padded with spaces, or plain
TypedKeyword(i) ==
    IF i % 4 = 0 THEN <<" ">>
    ELSE IF i % 4 = 2 THEN <<" ", "k", KeywordTags[i], " ">>
    ELSE <<"k", KeywordTags[i]>>

\* keyword lists as a user types them, and lists of plain keywords only
KeywordLists ==
    {[i \in 1..n |-> TypedKeyword(i)] : n \in 0..MaxKeywords}
    \cup {[i \in 1..n |-> <<"k", KeywordTags[i]>>] : n \in 4..MaxKeywords}
    \cup { << <<" ">> >>, << <<>>, <<" ", " ">> >> }

\* values of the variables an operation does not use
NoResult ==
    [articles |-> <<>>, method |-> "none", raised |-> FALSE, attempts |-> <<>>]

SearcherIdle ==
    /\ search_terms_sets = <<>>
    /\ srcIdx = 0 /\ setIdx = 0
    /\ articles = <<>> /\ method_used = "none" /\ best_search_terms = <<>>
    /\ all_articles = <<>>
    /\ successful_methods = <<>> /\ failed_methods = <<>>
    /\ corpus = <<>> /\ callLog = <<>>

FramesIdle ==
    /\ df = <<>> /\ df_first = <<>>

AdapterIdle ==
    /\ adapter_out = NoResult /\ terms_out = NoResult

RunsIdle ==
    /\ run = 1 /\ stats_first = <<>>
    /\ world = <<>> /\ corpus_first = <<>>

FilterIdle ==
    /\ candidate = <<>> /\ verdict = <<>>

MatcherIdle ==
    /\ articles_df = <<>> /\ existing_pdfs = <<>> /\ pdfIdx = 0
    /\ included_articles = <<>>
    /\ assigned_articles = {} /\ unmatched_pdfs = <<>>
    /\ updated_count = 0 /\ scanLog = <<>> /\ scanNo = 0
    /\ articles_first = <<>>

-----------------------------------------------------------------------------
(* SpecPlan: prepare_search_terms applied to every planner input *)

InitPlan ==
    /\ keywords \in KeywordLists
    /\ research_question \in ResearchQuestions
    /\ sources = <<>>
    /\ max_results_per_source = 100
    /\ pc = "plan"
    /\ SearcherIdle /\ FramesIdle /\ AdapterIdle
    /\ RunsIdle /\ FilterIdle /\ MatcherIdle

PlanTerms ==
    /\ pc = "plan"
    /\ search_terms_sets' = prepare_search_terms(keywords, research_question)
    /\ pc' = "planned"
    /\ UNCHANGED <<runVars, filterVars, matcherVars>>
    /\ UNCHANGED <<keywords, research_question, sources, max_results_per_source,
                   srcIdx, setIdx, articles, method_used, best_search_terms,
                   all_articles, successful_methods, failed_methods, corpus,
                   callLog, df, df_first, adapter_out, terms_out>>

NextPlan == PlanTerms

SpecPlan == InitPlan /\ [][NextPlan]_vars


(* C4 as stated: the plan is never empty, and whenever the research       *)
(* question is non-empty (read here as: holds a non-blank character) the   *)
(* plan holds a research_question term set whose priority is strictly      *)
(* lower than that of every other set.                                     *)
HasLeadingQuestionSet(sets) ==
    \E i \in 1..Len(sets) :
        /\ sets[i].type = "research_question"
        /\ \A j \in 1..Len(sets) : j # i => sets[i].priority < sets[j].priority

C4_PlanLeadsWithAnyQuestion ==
    pc = "planned" =>
        /\ search_terms_sets # <<>>
        /\ (Strip(research_question) # <<>>
              => HasLeadingQuestionSet(search_terms_sets))

(* C4 amended: the plan is never empty, and whenever at least one search   *)
(* term can be extracted from the research question the plan holds a       *)
(* research_question term set with the strictly lowest priority.           *)
C4_PlanLeadsWithQuestionTerms ==
    pc = "planned" =>
        /\ search_terms_sets # <<>>
        /\ (extract_search_terms_from_research_question(research_question) # <<>>
              => HasLeadingQuestionSet(search_terms_sets))

C4_Witness ==
    /\ pc = "planned"
    /\ Len(search_terms_sets) >= 3
    /\ search_terms_sets[1].type = "research_question"
    /\ search_terms_sets[2].type = "keywords"


\* the keyword term sets of the plan, in plan order
KeywordSets ==
    LET IsKeywordSet(set) == set.type = "keywords"
    IN SelectSeq(search_terms_sets, IsKeywordSet)

\* kws[i:i+5] for a multiple i of 5
IsChunkOfFive(terms, kws) ==
    \E c \in 0..(Len(kws) \div 5) :
        /\ 5 * c + 1 <= Len(kws)
        /\ terms = SubSeq(kws, 5 * c + 1,
                          IF 5 * c + 5 < Len(kws) THEN 5 * c + 5 ELSE Len(kws))

(* C22: for every keyword list that holds a non-blank keyword the plan     *)
(* holds between 1 and 4 keyword term sets; the first is the full list of  *)
(* the (stripped) non-blank keywords, each one is that full list, its      *)
(* first 5, its first 3 or a consecutive chunk of 5 of it, and the         *)
(* keyword sets carry the priorities 2, 3, ... in plan order, every one    *)
(* above the priority 1 of the research_question set.                      *)
C22_KeywordSetsOfThePlan ==
    (pc = "planned" /\ CleanKeywords(keywords) # <<>>) =>
        LET kws == CleanKeywords(keywords)
        IN /\ Len(KeywordSets) \in 1..4
           /\ KeywordSets[1].terms = kws
           /\ \A i \in DOMAIN KeywordSets :
                 /\ \/ KeywordSets[i].terms = kws
                    \/ KeywordSets[i].terms = Take(kws, 5)
                    \/ KeywordSets[i].terms = Take(kws, 3)
                    \/ IsChunkOfFive(KeywordSets[i].terms, kws)
                 /\ KeywordSets[i].priority = i + 1
           /\ \A i \in DOMAIN search_terms_sets :
                 search_terms_sets[i].type = "research_question"
                     => search_terms_sets[i].priority = 1

\* seven non-blank keywords and a research question: the full list, the
\* first 5, the first 3 and the first chunk, after the research_question set
C22_Witness ==
    /\ pc = "planned"
    /\ Len(keywords) = 7
    /\ CleanKeywords(keywords) = keywords
    /\ Len(KeywordSets) = 4
    /\ Len(search_terms_sets) = 5
    /\ KeywordSets[2].terms = Take(keywords, 5)
    /\ KeywordSets[3].terms = Take(keywords, 3)
    /\ KeywordSets[4].terms = Take(keywords, 5)


(* C26: the term sets of a plan are pairwise different term lists, for     *)
(* every keyword list and every research question.                         *)
C26_TermSetsPairwiseDifferent ==
    pc = "planned" =>
        \A i, j \in DOMAIN search_terms_sets :
            i # j => search_terms_sets[i].terms # search_terms_sets[j].terms


-----------------------------------------------------------------------------
(* Deduplicator: remove_duplicates and clean_article_data on a DataFrame,  *)
(* modelled as the sequence of its rows                                    *)

TitleOf(row) == row.title

\* df['id'] = range(1, len(df) + 1)
AssignIds(rows) == [i \in 1..Len(rows) |-> [rows[i] EXCEPT !.id = i]]

\* rows removed from the list while iterating over it: the row after a
\* removed one is skipped
RECURSIVE DropSkipping(_, _)
DropSkipping(rows, seen) ==
    IF rows = <<>> THEN <<>>
    ELSE IF rows[1].title \in seen
         THEN IF Len(rows) >= 2
              THEN <<rows[2]>> \o DropSkipping(Tail(Tail(rows)), seen)
              ELSE <<>>
         ELSE <<rows[1]>> \o DropSkipping(Tail(rows), seen \cup {rows[1].title})

remove_duplicates_skipping(frame) == DropSkipping(frame, {})

\* rows dropped when an earlier title is the same but for case and
\* surrounding whitespace
remove_duplicates_ignoring_case(frame) ==
    UniqueBy(frame, [i \in DOMAIN frame |-> Strip(Lower(frame[i].title))], {})

\* df.drop_duplicates(subset=['title'], keep='first').reset_index(drop=True)
remove_duplicates(frame) ==
    IF frame = <<>> THEN frame
    ELSE UniqueBy(frame, [i \in DOMAIN frame |-> TitleOf(frame[i])], {})

\* str.replace(r'\s+', ' ', regex=True)
RECURSIVE CollapseSpaces(_)
CollapseSpaces(s) ==
    IF s = <<>> THEN <<>>
    ELSE IF IsSpace(s[1])
         THEN IF Len(s) >= 2 /\ IsSpace(s[2])
              THEN CollapseSpaces(Tail(s))
              ELSE <<" ">> \o CollapseSpaces(Tail(s))
         ELSE <<s[1]>> \o CollapseSpaces(Tail(s))

\* the columns kept by clean_article_data, title stripped and collapsed
clean_article_data(frame) ==
    [i \in 1..Len(frame) |->
        [id |-> frame[i].id,
         title |-> CollapseSpaces(Strip(frame[i].title)),
         source |-> frame[i].source]]

\* titles as adapters deliver them: variants of one work in case and
\* whitespace, and a second work
Titles ==
    << <<"H","e","a","r","t"," ","F">>, <<"h","e","a","r","t"," ","f">>,
       <<"E","x","e","r","c","i","s","e">>, <<"H","e","a","r","t"," "," ","F">>,
       <<" ","H","e","a","r","t"," ","F">> >>

TitlePool == {Titles[i] : i \in 1..Len(Titles)}

RECURSIVE TitleLists(_)
TitleLists(n) ==
    IF n = 0 THEN {<<>>}
    ELSE LET shorter == TitleLists(n - 1)
         IN shorter \cup {l \o <<t>> : l \in shorter, t \in TitlePool}

RowOf(t, src) ==
    [id |-> 0, title |-> t, source |-> src, search_method |-> "",
     keywords_used |-> <<>>]

-----------------------------------------------------------------------------
(* SpecDedupe: remove_duplicates applied to a frame, and again to its      *)
(* own output                                                              *)

InitDedupe ==
    /\ \E titles \in TitleLists(MaxRecords) :
          df = AssignIds([i \in 1..Len(titles) |-> RowOf(titles[i], "arXiv")])
    /\ df_first = <<>>
    /\ keywords = <<>> /\ research_question = <<>> /\ sources = <<>>
    /\ max_results_per_source = 100
    /\ pc = "frame"
    /\ SearcherIdle /\ AdapterIdle
    /\ RunsIdle /\ FilterIdle /\ MatcherIdle

RemoveDuplicates ==
    /\ pc \in {"frame", "deduped"}
    /\ df' = remove_duplicates(df)
    /\ df_first' = IF pc = "frame" THEN df' ELSE df_first
    /\ pc' = IF pc = "frame" THEN "deduped" ELSE "deduped_again"
    /\ UNCHANGED <<runVars, filterVars, matcherVars>>
    /\ UNCHANGED <<keywords, research_question, sources, max_results_per_source,
                   search_terms_sets, srcIdx, setIdx, articles, method_used,
                   best_search_terms, all_articles, successful_methods,
                   failed_methods, corpus, callLog, adapter_out, terms_out>>

NextDedupe == RemoveDuplicates

SpecDedupe == InitDedupe /\ [][NextDedupe]_vars

(* C3: remove_duplicates applied to a frame that is already an output of   *)
(* remove_duplicates returns the same rows, in the same order, with the    *)
(* same ids.                                                               *)
C3_DedupeIdempotent ==
    pc = "deduped_again" => df = df_first

\* a second pass over a frame from which the first pass dropped a row
C3_Witness ==
    /\ pc = "deduped_again"
    /\ Len(df) >= 2
    /\ df[2].id > 2


-----------------------------------------------------------------------------
(* Academic Validity Filter: RobustAcademicSearcher.is_valid_article and   *)
(* AcademicScraper.is_likely_academic (src/utils/web_scraper.py)           *)

IsUpper(c) == \E i \in 1..26 : c = UPPER[i]

\* the literal t stands in s at position i
StartsAt(s, i, t) ==
    /\ i + Len(t) - 1 <= Len(s)
    /\ Text(SubSeq(s, i, i + Len(t) - 1)) = t

\* \b in front of a word character at position i
WordStartAt(s, i) == i = 1 \/ ~IsWordChar(s[i - 1])

\* the terms of a lexicon that occur in s
TermsIn(s, terms) == {t \in terms : ContainsText(s, t)}

academic_terms ==
    {"research", "study", "analysis", "investigation", "journal", "paper",
     "findings", "results", "method", "systematic", "clinical", "trial",
     "evidence", "data", "university", "institute", "department"}

academic_domains ==
    {"scholar.google", "pubmed", "arxiv", "researchgate", "sciencedirect",
     "springer", "wiley", "nature.com", "science.org", "ieee.org", "acm.org"}

excluded_terms ==
    {"wikipedia", "facebook", "twitter", "youtube", "shopping", "news"}

\* article is a record with the fields title, abstract and url
is_valid_article(article) ==
    IF article.title = <<>> \/ Len(article.title) < 10 THEN FALSE
    ELSE LET title == Lower(article.title)
             abstract == Lower(article.abstract)
             url == Lower(article.url)
             text == title \o <<" ">> \o abstract
             academic_score == Cardinality(TermsIn(text, academic_terms))
             domain_score == Cardinality(TermsIn(url, academic_domains))
         IN IF TermsIn(url, excluded_terms) # {} THEN FALSE
            ELSE academic_score >= 1 \/ domain_score >= 1

academic_indicators ==
    {<<"study", 2>>, <<"research", 2>>, <<"analysis", 2>>,
     <<"investigation", 2>>, <<"trial", 2>>, <<"method", 1>>,
     <<"results", 1>>, <<"conclusion", 1>>, <<"systematic", 3>>,
     <<"meta-analysis", 3>>, <<"journal", 2>>, <<"publication", 1>>,
     <<"doi", 3>>, <<"abstract", 1>>, <<"clinical", 2>>, <<"review", 2>>,
     <<"findings", 1>>, <<"evidence", 2>>, <<"data", 1>>, <<"patients", 2>>,
     <<"treatment", 2>>, <<"therapy", 2>>, <<"intervention", 2>>,
     <<"outcomes", 2>>, <<"university", 2>>, <<"college", 1>>,
     <<"department", 1>>, <<"institute", 2>>, <<"laboratory", 2>>,
     <<"lab", 1>>}

strong_academic_domains ==
    {"scholar.google.com", "pubmed.ncbi.nlm.nih.gov", "arxiv.org",
     "researchgate.net", "sciencedirect.com", "springer.com", "wiley.com",
     "nature.com", "science.org", "tandfonline.com", "ieee.org", "acm.org",
     "jstor.org", "ncbi.nlm.nih.gov"}

weak_academic_domains ==
    {"academia.edu", "semanticscholar.org", "pubmed.gov", "nih.gov", "edu",
     "elsevier.com", "sage.com", "cambridge.org", "oxford.com"}

non_academic_indicators ==
    {<<"blog", -2>>, <<"news", -1>>, <<"wikipedia", -2>>, <<"forum", -2>>,
     <<"comment", -1>>, <<"social", -1>>, <<"facebook", -3>>,
     <<"twitter", -3>>, <<"instagram", -3>>, <<"reddit", -2>>,
     <<"youtube", -2>>, <<"tiktok", -3>>, <<"shopping", -3>>, <<"buy", -2>>,
     <<"sale", -2>>, <<"advertisement", -3>>, <<"ad", -1>>, <<"spam", -3>>}

\* the sum of the weights of the indicators that occur in text
RECURSIVE WeightIn(_, _)
WeightIn(text, indicators) ==
    IF indicators = {} THEN 0
    ELSE LET ind == CHOOSE x \in indicators : TRUE
         IN (IF ContainsText(text, ind[1]) THEN ind[2] ELSE 0)
            + WeightIn(text, indicators \ {ind})

domain_boost(url_lower) ==
    IF TermsIn(url_lower, strong_academic_domains) # {} THEN 5
    ELSE IF TermsIn(url_lower, weak_academic_domains) # {} THEN 2
    ELSE 0

\* re.search(r'\b(doi|pmid|isbn|issn):', text)
identifier_pattern(text) ==
    \E i \in 1..Len(text) : \E w \in {"doi:", "pmid:", "isbn:", "issn:"} :
        WordStartAt(text, i) /\ StartsAt(text, i, w)

\* re.search(r'\b(volume|issue|pages?):\s*\d+', text)
volume_pattern(text) ==
    \E i \in 1..Len(text) :
    \E w \in {"volume:", "issue:", "page:", "pages:"} :
        /\ WordStartAt(text, i)
        /\ StartsAt(text, i, w)
        /\ \E k \in (i + Len(w))..Len(text) :
              /\ text[k] \in DIGITS
              /\ \A j \in (i + Len(w))..(k - 1) : IsSpace(text[j])

\* re.search(r'\b(published|journal|conference|proceedings)', text)
venue_pattern(text) ==
    \E i \in 1..Len(text) :
    \E w \in {"published", "journal", "conference", "proceedings"} :
        WordStartAt(text, i) /\ StartsAt(text, i, w)

\* re.search(r'^[A-Z][^.!?]*[:.]\s*[A-Z]', title)
subtitle_pattern(title) ==
    /\ title # <<>>
    /\ IsUpper(title[1])
    /\ \E j \in 2..Len(title) :
          /\ title[j] \in {":", "."}
          /\ \A k \in 2..(j - 1) : title[k] \notin {".", "!", "?"}
          /\ \E m \in (j + 1)..Len(title) :
                /\ IsUpper(title[m])
                /\ \A k \in (j + 1)..(m - 1) : IsSpace(title[k])

academic_score(title, abstract, url) ==
    LET text == Lower(title \o <<" ">> \o abstract)
    IN WeightIn(text, academic_indicators)
       + WeightIn(text, non_academic_indicators)
       + domain_boost(Lower(url))
       + (IF identifier_pattern(text) THEN 3 ELSE 0)
       + (IF volume_pattern(text) THEN 2 ELSE 0)
       + (IF venue_pattern(text) THEN 2 ELSE 0)
       + (IF subtitle_pattern(title) THEN 1 ELSE 0)
       + (IF Len(Split(title)) > 8 THEN 1 ELSE 0)

is_likely_academic(title, abstract, url) ==
    IF title = <<>> \/ Len(Strip(title)) < 10 THEN FALSE
    ELSE academic_score(title, abstract, url) >= 3

-----------------------------------------------------------------------------
(* Source adapters.  What the network does is the environment: every       *)
(* request of an adapter call has an outcome                               *)
(*   raise    the request raised, or answered with an error status         *)
(*   none     the answer holds no entry                                    *)
(*   invalid  the answer holds entries, none of which the extract_*        *)
(*            functions can read                                           *)
(*   ok n     the answer holds n entries that are read and then validated  *)
(* and an adapter result is [articles, method, raised]: raised is TRUE     *)
(* when the call ends in an exception instead of returning.                *)

Outcomes ==
    {[kind |-> k, n |-> 0] : k \in {"raise", "none", "invalid"}}
    \cup {[kind |-> "ok", n |-> n] : n \in 1..MaxPerCall}

Ret(arts, method) ==
    [articles |-> arts, method |-> method, raised |-> FALSE, attempts |-> <<>>]
Raised ==
    [articles |-> <<>>, method |-> "", raised |-> TRUE, attempts |-> <<>>]

\* the trace of a call of an adapter with several techniques: the
\* techniques it attempted, in order, each with the number of records it
\* produced (none when it raised)
Attempt(k, r) ==
    [technique |-> k, n |-> IF r.raised THEN 0 ELSE Len(r.articles),
     raised |-> r.raised]

Traced(r, attempts) == [r EXCEPT !.attempts = attempts]

\* an entry of an answer, as the extract_* functions read it
Entry(title, abstract, url, authors) ==
    [title |-> title, abstract |-> abstract, url |-> url, authors |-> authors]

\* entries of the answers: variants of one work in case and whitespace, a
\* second work, and an entry without a title on an academic site
Entries ==
    << Entry(<<"D","a","t","a"," ","S","t","u","d","y">>, <<>>,
             <<"h","t","t","p","s",":","/","/","a","r","x","i","v",".","o","r","g","/","a","b","s","/","1">>, <<"S","m","i","t","h",","," ","J">>),
       Entry(<<"d","a","t","a"," ","s","t","u","d","y">>, <<>>, <<>>,
             <<"U","n","k","n","o","w","n">>),
       Entry(<<"T","r","i","a","l"," ","D","a","t","a">>, <<>>, <<>>, <<"L","e","e",","," ","K">>),
       Entry(<<"D","a","t","a"," "," ","S","t","u","d","y">>, <<>>, <<>>,
             <<"K","i","m",","," ","S">>),
       Entry(<<>>, <<>>, <<"h","t","t","p","s",":","/","/","p","u","b","m","e","d",".","g","o","v","/","1">>,
             <<"L","e","e",","," ","K">>) >>

\* what a source holds: the entries the k-th technique of an adapter finds,
\* in the order it finds them
Catalog(source, k) ==
    LET shift == (IF source \in {"arXiv", "Scopus", "Semantic Scholar"}
                  THEN 3 ELSE 0) + (k - 1)
    IN [i \in 1..Len(Entries) |->
           Entries[((i - 1 + shift) % Len(Entries)) + 1]]

\* the entries of an answer
Hits(source, k, o) ==
    IF o.kind = "ok"
    THEN [i \in 1..o.n |-> Catalog(source, k)[i]]
    ELSE <<>>

\* the article dict of an entry, before the orchestrator adds its metadata
Record(entry) == RowOf(entry.title, "")

Records(entries) == [i \in DOMAIN entries |-> Record(entries[i])]

\* title of 10 to 300 characters and authors other than "Unknown"
is_valid_scholarly_article(article) ==
    /\ article.title # <<>>
    /\ Len(article.title) >= 10 /\ Len(article.title) <= 300
    /\ article.authors # <<>>
    /\ Text(article.authors) # "Unknown"

\* the entries that is_valid_article accepts
ValidEntries == {e \in {Entries[i] : i \in DOMAIN Entries} : is_valid_article(e)}

\* the loops of the API adapters: every entry that is_valid_article accepts
Validated(entries) ==
    LET Accepted(e) == e \in ValidEntries
    IN Records(SelectSeq(entries, Accepted))

\* parse_google_scholar_html, parse_duckduckgo_html: the first cap
\* containers, of which the valid ones are kept
parse_html(entries, cap) == Validated(Take(entries, cap))

\* search_via_duckduckgo: parse_duckduckgo_html keeps at most
\* max_results_per_source containers; any exception is re-raised
search_via_duckduckgo(source, k, o, cap) ==
    IF o.kind = "raise" THEN Raised
    ELSE Ret(parse_html(Hits(source, k, o), cap), "")

\* try: articles = search_via_duckduckgo(..); if articles: return articles, tag
\* except Exception: (logged);  return [], "failed"
search_one_site_uncaught(source, o, cap, tag) ==
    LET Result(r) ==
            IF r.raised THEN Raised
            ELSE IF r.articles # <<>> THEN Ret(r.articles, tag)
            ELSE Ret(<<>>, "failed")
    IN Result(search_via_duckduckgo(source, 1, o, cap))

search_one_site(source, o, cap, tag) ==
    LET Result(r) ==
            IF ~r.raised /\ r.articles # <<>> THEN Ret(r.articles, tag)
            ELSE Ret(<<>>, "failed")
    IN Result(search_via_duckduckgo(source, 1, o, cap))

search_arxiv_robust(env, cap) ==
    search_one_site("arXiv", env.net[1], cap, "arxiv_search")

search_researchgate_robust(env, cap) ==
    search_one_site("ResearchGate", env.net[1], cap, "researchgate_search")

\* strategy 1: status 200 and parse_google_scholar_html; strategies 2 and 3:
\* search_via_duckduckgo
search_google_scholar_robust(env, cap) ==
    LET src == "Google Scholar"
        Result(direct, ddg, terms) ==
            LET a1 == <<Attempt(1, direct)>>
                a2 == <<Attempt(1, direct), Attempt(2, ddg)>>
                a3 == <<Attempt(1, direct), Attempt(2, ddg), Attempt(3, terms)>>
            IN IF ~direct.raised /\ direct.articles # <<>>
               THEN Traced(Ret(direct.articles, "direct_scholar"), a1)
               ELSE IF ~ddg.raised /\ ddg.articles # <<>>
                    THEN Traced(Ret(ddg.articles, "duckduckgo_scholar"), a2)
               ELSE IF ~terms.raised /\ terms.articles # <<>>
                    THEN Traced(Ret(terms.articles, "academic_terms"), a3)
               ELSE Traced(Ret(<<>>, "failed"), a3)
    IN Result(IF env.net[1].kind = "raise" THEN Raised
              ELSE Ret(parse_html(Hits(src, 1, env.net[1]), cap), ""),
              search_via_duckduckgo(src, 2, env.net[2], cap),
              search_via_duckduckgo(src, 3, env.net[3], cap))

search_scholarly_api(env, cap) ==
    LET Result(found) ==
            IF found # <<>> THEN Ret(found, "scholarly_api")
            ELSE Ret(<<>>, "scholarly_no_results")
    IN IF ~env.scholarly_available THEN Ret(<<>>, "scholarly_unavailable")
       ELSE IF env.net[1].kind = "raise" THEN Ret(<<>>, "scholarly_error")
       ELSE Result(Take(Records(SelectSeq(Hits("Google Scholar (Scholarly)",
                                               1, env.net[1]),
                                          is_valid_scholarly_article)),
                        IF cap < 50 THEN cap ELSE 50))

search_pubmed_robust(env, cap) ==
    LET src == "PubMed/MEDLINE"
        Result(ddg, nih) ==
            IF ~ddg.raised /\ ddg.articles # <<>>
            THEN Traced(Ret(ddg.articles, "duckduckgo_pubmed"),
                        <<Attempt(1, ddg)>>)
            ELSE IF ~nih.raised /\ nih.articles # <<>>
                 THEN Traced(Ret(nih.articles, "nih_sites"),
                             <<Attempt(1, ddg), Attempt(2, nih)>>)
            ELSE Traced(Ret(<<>>, "failed"),
                        <<Attempt(1, ddg), Attempt(2, nih)>>)
    IN Result(search_via_duckduckgo(src, 1, env.net[1], cap),
              search_via_duckduckgo(src, 2, env.net[2], cap))

\* ESearch for the PMIDs, then EFetch and parse_pubmed_xml
search_pubmed_api(env, cap) ==
    LET esearch == env.net[1]
        efetch == env.net[2]
        Result(parsed) ==
            IF parsed # <<>> THEN Ret(parsed, "pubmed_api")
            ELSE Ret(<<>>, "no_articles_parsed")
    IN IF esearch.kind = "raise" THEN Ret(<<>>, "api_error")
       ELSE IF esearch.kind = "none" THEN Ret(<<>>, "no_pmids")
       ELSE IF efetch.kind = "raise" THEN Ret(<<>>, "api_error")
       ELSE Result(Validated(Hits("PubMed API", 1, efetch)))

search_semantic_scholar_api(env, cap) ==
    LET o == env.net[1]
        Result(found) ==
            IF found # <<>> THEN Ret(found, "semantic_scholar_api")
            ELSE Ret(<<>>, "no_valid_articles")
    IN IF o.kind = "raise" THEN Ret(<<>>, "api_error")
       ELSE IF o.kind = "none" THEN Ret(<<>>, "no_papers")
       ELSE Result(Validated(Hits("Semantic Scholar", 1, o)))

search_core_api(env, cap) ==
    LET o == env.net[1]
        Result(found) ==
            IF found # <<>> THEN Ret(found, "core_api")
            ELSE Ret(<<>>, "no_valid_articles")
    IN IF ~env.core_api_key THEN Ret(<<>>, "no_api_key")
       ELSE IF o.kind = "raise" THEN Ret(<<>>, "api_error")
       ELSE IF o.kind = "none" THEN Ret(<<>>, "no_works")
       ELSE Result(Validated(Hits("CORE API", 1, o)))

\* further searches made until the adapter holds cap records
needs_more_below_cap(arts, cap) == Len(arts) < cap

\* if len(articles) < self.max_results_per_source // 2
needs_more(arts, cap) == Len(arts) < cap \div 2

\* the records of a search, none when it raised
Got(r) == IF r.raised THEN <<>> ELSE r.articles

\* strategy 2 runs when strategy 1 left fewer than cap // 2 records; its
\* records are filtered by is_valid_article, which parse_duckduckgo_html
\* has applied to them already
search_duckduckgo_robust(env, cap) ==
    LET src == "DuckDuckGo Academic"
        Return(arts, attempts) ==
            IF arts # <<>>
            THEN Traced(Ret(Take(arts, cap), "enhanced_duckduckgo"),
                        attempts)
            ELSE Traced(Ret(<<>>, "failed"), attempts)
        Result(first, second) ==
            IF needs_more(Got(first), cap)
            THEN Return(Got(first) \o Got(second),
                        <<Attempt(1, first), Attempt(2, second)>>)
            ELSE Return(Got(first), <<Attempt(1, first)>>)
    IN Result(search_via_duckduckgo(src, 1, env.net[1], cap),
              search_via_duckduckgo(src, 2, env.net[2], cap))

\* domain_mapping.get(source, ""), as a list of domains
FallbackDomains(source) ==
    IF source = "Web of Science" THEN 2
    ELSE IF source \in {"Scopus", "EMBASE", "PsycINFO", "arXiv", "ResearchGate"}
         THEN 1 ELSE 0

\* got is [articles, attempts]: the records gathered and the searches
\* made so far
Gather(got, k, r) ==
    [articles |-> got.articles \o Got(r),
     attempts |-> Append(got.attempts, Attempt(k, r))]

\* for domain in domains: ... if len(articles) >= cap // 2: break
\* except Exception: continue
RECURSIVE DomainSearches(_, _, _, _, _)
DomainSearches(source, env, cap, k, got) ==
    LET Step(r, after) ==
            IF ~r.raised /\ ~needs_more(after.articles, cap) THEN after
            ELSE DomainSearches(source, env, cap, k + 1, after)
        After(r) == Step(r, Gather(got, k, r))
    IN IF k > FallbackDomains(source) THEN got
       ELSE After(search_via_duckduckgo(source, k, env.net[k], cap))

\* title_key = article.get('title', '').lower().strip(); the first record
\* of every non-empty key is kept
unique_by_title(arts) ==
    LET Keep(keyed) ==
            UniqueBy(keyed,
                     [i \in DOMAIN keyed |-> Strip(Lower(keyed[i].title))], {})
        NonEmptyKey(row) == Strip(Lower(row.title)) # <<>>
    IN Keep(SelectSeq(arts, NonEmptyKey))

search_universal_fallback(source, env, cap) ==
    LET g == FallbackDomains(source) + 1
        Return(unique_articles, attempts) ==
            IF unique_articles # <<>>
            THEN Traced(Ret(Take(unique_articles, cap),
                            "universal_fallback_enhanced"), attempts)
            ELSE Traced(Ret(<<>>, "failed"), attempts)
        Finish(all) == Return(unique_by_title(all.articles), all.attempts)
        Result(domains, general) ==
            IF needs_more(domains.articles, cap)
            THEN Finish(Gather(domains, g, general))
            ELSE Finish(domains)
    IN Result(DomainSearches(source, env, cap, 1,
                             [articles |-> <<>>, attempts |-> <<>>]),
              search_via_duckduckgo(source, g, env.net[g], cap))

\* the dispatch on the source name in search_single_source_with_terms
CallAdapter(source, env, cap) ==
    CASE source = "Google Scholar" -> search_google_scholar_robust(env, cap)
      [] source = "Google Scholar (Scholarly)" -> search_scholarly_api(env, cap)
      [] source = "PubMed/MEDLINE" -> search_pubmed_robust(env, cap)
      [] source = "PubMed API" -> search_pubmed_api(env, cap)
      [] source = "Semantic Scholar" -> search_semantic_scholar_api(env, cap)
      [] source = "CORE API" -> search_core_api(env, cap)
      [] source = "DuckDuckGo Academic" -> search_duckduckgo_robust(env, cap)
      [] source = "arXiv" -> search_arxiv_robust(env, cap)
      [] source = "ResearchGate" -> search_researchgate_robust(env, cap)
      [] OTHER -> search_universal_fallback(source, env, cap)

search_single_source_with_terms(search_terms, source, env, cap) ==
    IF search_terms = <<>> THEN Ret(<<>>, "no_terms")
    ELSE LET r == CallAdapter(source, env, cap)
         IN IF r.raised THEN Ret(<<>>, "error") ELSE r

\* number of network requests an adapter call can make
Requests(source) ==
    CASE source \in {"Google Scholar"} -> 3
      [] source \in {"PubMed/MEDLINE", "PubMed API", "DuckDuckGo Academic"} -> 2
      [] source \in {"Google Scholar (Scholarly)", "Semantic Scholar",
                     "CORE API", "arXiv", "ResearchGate"} -> 1
      [] OTHER -> FallbackDomains(source) + 1

\* the environments of one adapter call
Envs(source) ==
    {[net |-> net, scholarly_available |-> sa, core_api_key |-> ck] :
        net \in [1..Requests(source) -> Outcomes],
        sa \in (IF source = "Google Scholar (Scholarly)" THEN BOOLEAN ELSE {TRUE}),
        ck \in (IF source = "CORE API" THEN BOOLEAN ELSE {TRUE})}


-----------------------------------------------------------------------------
(* Fallback Orchestrator: search_all_sources *)

\* ', '.join(terms)
RECURSIVE Join(_)
Join(terms) ==
    IF terms = <<>> THEN <<>>
    ELSE IF Len(terms) = 1 THEN terms[1]
    ELSE terms[1] \o <<",", " ">> \o Join(Tail(terms))

\* the entry guard left out
no_terms_provided_unguarded(kws, rq) == FALSE

\* if not keywords and not research_question
no_terms_provided(kws, rq) == kws = <<>> /\ rq = <<>>

\* the threshold taken as a true third of the cap
early_exit_exact_third(type, n, cap) ==
    type = "research_question" /\ 3 * n >= cap

\* search_set['type'] == 'research_question'
\*     and len(temp_articles) >= self.max_results_per_source // 3
early_exit(type, n, cap) ==
    type = "research_question" /\ n >= cap \div 3

\* the else left out: the failure entry is appended in both cases
record_outcome_without_else(stats, arts, entry) ==
    [successful_methods |->
         IF arts # <<>> THEN Append(stats.successful_methods, entry)
         ELSE stats.successful_methods,
     failed_methods |-> Append(stats.failed_methods, entry)]

\* a source counted as a success from its second record on
record_outcome_above_one(stats, arts, entry) ==
    [successful_methods |->
         IF Len(arts) > 1 THEN Append(stats.successful_methods, entry)
         ELSE stats.successful_methods,
     failed_methods |->
         IF Len(arts) <= 1 THEN Append(stats.failed_methods, entry)
         ELSE stats.failed_methods]

\* if articles: self.successful_methods.append(f"{source}:{method_used}")
\* else:        self.failed_methods.append(f"{source}:{method_used}")
record_outcome(stats, arts, entry) ==
    [successful_methods |->
         IF arts # <<>> THEN Append(stats.successful_methods, entry)
         ELSE stats.successful_methods,
     failed_methods |->
         IF arts = <<>> THEN Append(stats.failed_methods, entry)
         ELSE stats.failed_methods]

\* the loop over the sources left when a source found nothing
more_sources_unless_failed(i, srcs, arts) == i < Len(srcs) /\ arts # <<>>

\* for source in sources: another source follows the i-th one
more_sources(i, srcs, arts) == i < Len(srcs)

\* the rate computed from the failures
get_statistics_failure_rate(succ, fail) ==
    [successful_methods |-> succ, failed_methods |-> fail,
     success_rate |->
        [num |-> Len(fail),
         den |-> IF Len(succ) + Len(fail) > 1 THEN Len(succ) + Len(fail) ELSE 1]]

\* get_statistics: the rate len(successful) / max(1, len(successful) +
\* len(failed)) is kept as numerator and denominator
get_statistics(succ, fail) ==
    [successful_methods |-> succ, failed_methods |-> fail,
     success_rate |->
        [num |-> Len(succ),
         den |-> IF Len(succ) + Len(fail) > 1 THEN Len(succ) + Len(fail) ELSE 1]]

\* inputs of a search run
SearchKeywordLists ==
    {[i \in 1..n |-> TypedKeyword(i)] : n \in 0..MaxSearchKeywords}
    \cup { << <<" ">> >> }

SearchQuestions == { <<>>, <<" ">>, <<"a">>, <<"d","a","d">> }

\* sources: List[str], any list, also one that names a source twice
SourceLists ==
    { <<>>, <<"arXiv">>, <<"PubMed API">>, <<"arXiv", "PubMed API">>,
      <<"PubMed API", "arXiv">>, <<"PubMed/MEDLINE">>, <<"arXiv", "arXiv">> }

Caps == {1, 4, 7}

Init ==
    /\ keywords \in SearchKeywordLists
    /\ research_question \in SearchQuestions
    /\ sources \in SourceLists
    /\ max_results_per_source \in Caps
    /\ pc = "idle"
    /\ SearcherIdle /\ FramesIdle /\ AdapterIdle
    /\ RunsIdle /\ FilterIdle /\ MatcherIdle

\* entry of search_all_sources up to the start of the loop over the sources
StartSearch ==
    /\ pc = "idle"
    /\ IF no_terms_provided(keywords, research_question)
       THEN /\ corpus' = <<>>
            /\ pc' = "done"
            /\ UNCHANGED <<search_terms_sets, srcIdx, setIdx>>
       ELSE /\ search_terms_sets' =
                   prepare_search_terms(keywords, research_question)
            /\ srcIdx' = IF sources = <<>> THEN 0 ELSE 1
            /\ setIdx' = IF sources = <<>> THEN 0 ELSE 1
            /\ pc' = IF sources = <<>> THEN "process" ELSE "try"
            /\ UNCHANGED corpus
    /\ UNCHANGED <<runVars, filterVars, matcherVars>>
    /\ UNCHANGED <<keywords, research_question, sources, max_results_per_source,
                   articles, method_used, best_search_terms, all_articles,
                   successful_methods, failed_methods, callLog, df, df_first,
                   adapter_out, terms_out>>

\* what the network can do during the adapter call of a source with a
\* term list: anything, unless the answers to that query are fixed
EnvsOfCall(source, terms) ==
    IF <<source, terms>> \in DOMAIN world THEN {world[<<source, terms>>]}
    ELSE Envs(source)

\* one turn of the loop over the term sets: the adapter call and what
\* follows it
TryTermSet ==
    /\ pc = "try"
    /\ setIdx <= Len(search_terms_sets)
    /\ \E env \in EnvsOfCall(sources[srcIdx],
                              search_terms_sets[setIdx].terms) :
       \E r \in {search_single_source_with_terms(
                     search_terms_sets[setIdx].terms, sources[srcIdx], env,
                     max_results_per_source)} :
       \E found \in {~r.raised /\ r.articles # <<>>} :
         LET search_set == search_terms_sets[setIdx]
         IN /\ articles' = IF found THEN articles \o r.articles ELSE articles
            /\ method_used' = IF found
                              THEN r.method \o "_" \o search_set.type
                              ELSE method_used
            /\ best_search_terms' = IF found THEN search_set.terms
                                    ELSE best_search_terms
            /\ setIdx' = IF found /\ early_exit(search_set.type,
                                                Len(r.articles),
                                                max_results_per_source)
                         THEN Len(search_terms_sets) + 1
                         ELSE setIdx + 1
            /\ callLog' = Append(callLog,
                                 [src |-> srcIdx, set |-> setIdx,
                                  n |-> Len(r.articles),
                                  technique |-> r.method,
                                  type |-> search_set.type])
    /\ UNCHANGED <<runVars, filterVars, matcherVars>>
    /\ UNCHANGED <<keywords, research_question, sources, max_results_per_source,
                   pc, search_terms_sets, srcIdx, all_articles,
                   successful_methods, failed_methods, corpus, df, df_first,
                   adapter_out, terms_out>>

\* after the term sets of a source: metadata, statistics, next source
FinishSource ==
    /\ pc = "try"
    /\ setIdx > Len(search_terms_sets)
    /\ LET source == sources[srcIdx]
           tagged == [i \in 1..Len(articles) |->
                        [articles[i] EXCEPT
                            !.source = source,
                            !.search_method = method_used,
                            !.keywords_used = Join(best_search_terms)]]
           stats == record_outcome(
                        [successful_methods |-> successful_methods,
                         failed_methods |-> failed_methods],
                        articles, source \o ":" \o method_used)
       IN /\ all_articles' = all_articles \o tagged
          /\ successful_methods' = stats.successful_methods
          /\ failed_methods' = stats.failed_methods
          /\ IF more_sources(srcIdx, sources, articles)
             THEN /\ srcIdx' = srcIdx + 1
                  /\ setIdx' = 1
                  /\ pc' = "try"
             ELSE /\ pc' = "process"
                  /\ UNCHANGED <<srcIdx, setIdx>>
    /\ articles' = <<>>
    /\ method_used' = "none"
    /\ best_search_terms' = <<>>
    /\ UNCHANGED <<runVars, filterVars, matcherVars>>
    /\ UNCHANGED <<keywords, research_question, sources, max_results_per_source,
                   search_terms_sets, corpus, callLog, df, df_first,
                   adapter_out, terms_out>>

\* "Process results": ids, remove_duplicates, clean_article_data, return
ProcessResults ==
    /\ pc = "process"
    /\ corpus' = IF all_articles # <<>>
                 THEN clean_article_data(
                          remove_duplicates(AssignIds(all_articles)))
                 ELSE <<>>
    /\ pc' = "done"
    /\ UNCHANGED <<runVars, filterVars, matcherVars>>
    /\ UNCHANGED <<keywords, research_question, sources, max_results_per_source,
                   search_terms_sets, srcIdx, setIdx, articles, method_used,
                   best_search_terms, all_articles, successful_methods,
                   failed_methods, callLog, df, df_first, adapter_out,
                   terms_out>>

Next == StartSearch \/ TryTermSet \/ FinishSource \/ ProcessResults

Spec == Init /\ [][Next]_vars


-----------------------------------------------------------------------------
(* Claims about a search run *)

\* the comparison the Corpus invariant is stated in: trim, case-fold,
\* collapse internal whitespace
Normalize(t) == CollapseSpaces(Strip(Lower(t)))

RunEnded == pc = "done"
SourcesQueried == search_terms_sets # <<>>
CallsOf(i) == {k \in 1..Len(callLog) : callLog[k].src = i}
SeqSet(q) == {q[i] : i \in 1..Len(q)}

(* C1: the Corpus returned by a search run holds no two records whose      *)
(* titles are equal after normalization (trim, case-fold, whitespace       *)
(* collapsed).                                                             *)
C1_NoNormalizedDuplicates ==
    RunEnded =>
        \A i \in 1..Len(corpus) : \A j \in 1..Len(corpus) :
            i # j => Normalize(corpus[i].title) # Normalize(corpus[j].title)

(* C2: the ids of the Corpus returned by a search run are 1..n in the      *)
(* order of its records.                                                   *)
C2_DenseIds ==
    RunEnded => \A i \in 1..Len(corpus) : corpus[i].id = i

LaterSetTried(e) ==
    \E k \in 1..Len(callLog) :
        callLog[k].src = e.src /\ callLog[k].set > e.set

NextSetTried(e) ==
    \E k \in 1..Len(callLog) :
        callLog[k].src = e.src /\ callLog[k].set = e.set + 1

SourceFinished(i) == pc \in {"process", "done"} \/ srcIdx > i

\* term sets are tried in plan order, which is ascending priority
TriedInPriorityOrder ==
    /\ \A i \in 1..Len(search_terms_sets) : \A j \in 1..Len(search_terms_sets) :
          i < j => search_terms_sets[i].priority < search_terms_sets[j].priority
    /\ \A k \in 1..Len(callLog) :
          \/ callLog[k].set = 1
          \/ /\ k > 1
             /\ callLog[k-1].src = callLog[k].src
             /\ callLog[k-1].set = callLog[k].set - 1

StopsExactlyWhen(Enough(_)) ==
    \A k \in 1..Len(callLog) :
        LET e == callLog[k]
            stop == /\ search_terms_sets[e.set].type = "research_question"
                    /\ e.n >= 1
                    /\ Enough(e.n)
        IN /\ stop => ~LaterSetTried(e)
           /\ (~stop /\ SourceFinished(e.src) /\ e.set < Len(search_terms_sets))
                 => NextSetTried(e)

AThirdOfCap(n) == 3 * n >= max_results_per_source
FlooredThirdOfCap(n) == n >= max_results_per_source \div 3

(* C5 as stated: term sets are tried in priority order; after a            *)
(* research_question set returned r >= 1 records with 3*r >= cap no        *)
(* further set is tried for the source, and in every other case the next   *)
(* set is tried.                                                           *)
C5_StopsAtAThird ==
    TriedInPriorityOrder /\ StopsExactlyWhen(AThirdOfCap)

(* C5 amended: the threshold is the integer quotient cap // 3: after a     *)
(* research_question set returned r >= 1 records with r >= cap // 3 no     *)
(* further set is tried for the source, and in every other case the next   *)
(* set is tried.                                                           *)
C5_StopsAtFlooredThird ==
    TriedInPriorityOrder /\ StopsExactlyWhen(FlooredThirdOfCap)

\* a research_question set stopped the source although keyword sets remain,
\* and another source went on to its keyword set after a small result
C5_Witness ==
    /\ RunEnded
    /\ Len(search_terms_sets) >= 2
    /\ search_terms_sets[1].type = "research_question"
    /\ \E k \in 1..Len(callLog) :
          /\ callLog[k].set = 1 /\ callLog[k].n >= 1
          /\ ~LaterSetTried(callLog[k])
    /\ \E k \in 1..Len(callLog) :
          /\ callLog[k].set = 1 /\ callLog[k].n >= 1
          /\ NextSetTried(callLog[k])

FinishedSources ==
    IF pc \in {"process", "done"} /\ SourcesQueried THEN Len(sources)
    ELSE IF pc = "try" THEN srcIdx - 1 ELSE 0

\* the statistics entries the source at position i of the list can have
EntriesFor(i) ==
    {sources[i] \o ":none"}
    \cup {sources[i] \o ":" \o callLog[k].technique \o "_" \o callLog[k].type :
             k \in CallsOf(i)}

RecordedFailed(i) == EntriesFor(i) \cap SeqSet(failed_methods) # {}
RecordedSuccess(i) == EntriesFor(i) \cap SeqSet(successful_methods) # {}

\* the finished positions of the list that name the source at position i
SamePositions(i) == {j \in 1..FinishedSources : sources[j] = sources[i]}

\* the statistics entries the source named at position i can have
EntriesOfSource(i) == UNION {EntriesFor(j) : j \in SamePositions(i)}

\* how many entries of a list are among the given ones
CountIn(list, entries) ==
    Cardinality({k \in DOMAIN list : list[k] \in entries})

NoSourceTwice ==
    \A p, q \in 1..Len(sources) : p # q => sources[p] # sources[q]

(* C6 as stated: within a run every finished source has put exactly one    *)
(* entry into exactly one of the success list and the failure list: no     *)
(* entry is in both lists and none appears twice.                          *)
C6_OneOutcomePerSource ==
    /\ SeqSet(successful_methods) \cap SeqSet(failed_methods) = {}
    /\ Cardinality(SeqSet(successful_methods \o failed_methods))
         = Len(successful_methods) + Len(failed_methods)
    /\ Len(successful_methods) + Len(failed_methods) = FinishedSources

(* C6 amended: within a run every finished position of the sources list    *)
(* has put exactly one entry into exactly one of the success list and the  *)
(* failure list: no entry is in both lists, the entries of a source are as *)
(* many as the finished positions that name it, and when no source is      *)
(* listed twice no entry appears twice.                                    *)
C6_OneOutcomePerListedSource ==
    /\ SeqSet(successful_methods) \cap SeqSet(failed_methods) = {}
    /\ Len(successful_methods) + Len(failed_methods) = FinishedSources
    /\ \A i \in 1..FinishedSources :
          CountIn(successful_methods \o failed_methods, EntriesOfSource(i))
            = Cardinality(SamePositions(i))
    /\ NoSourceTwice =>
          Cardinality(SeqSet(successful_methods \o failed_methods))
            = Len(successful_methods) + Len(failed_methods)

\* a source listed twice failed twice and has the same entry twice, the
\* once-per-position count still holds
C6_Witness ==
    /\ RunEnded
    /\ sources = <<"arXiv", "arXiv">>
    /\ failed_methods = <<"arXiv:none", "arXiv:none">>
    /\ successful_methods = <<>>

AllCallsEmpty == \A k \in 1..Len(callLog) : callLog[k].n = 0

(* C7: when every adapter call of a run that queried its sources returned  *)
(* zero records, the run returns an empty Corpus and the statistics read   *)
(* after it have an entry of every source in the failure list, an empty    *)
(* success list and success rate 0.                                        *)
C7_AllSourcesFail ==
    (RunEnded /\ SourcesQueried /\ AllCallsEmpty) =>
        LET stats == get_statistics(successful_methods, failed_methods)
        IN /\ corpus = <<>>
           /\ stats.successful_methods = <<>>
           /\ Len(stats.failed_methods) = Len(sources)
           /\ \A i \in 1..Len(sources) :
                 (sources[i] \o ":none") \in SeqSet(stats.failed_methods)
           /\ stats.success_rate.num = 0

C7_Witness ==
    /\ RunEnded /\ AllCallsEmpty
    /\ Len(sources) = 2
    /\ Len(callLog) >= 4
    /\ Len(failed_methods) = 2

\* method tags with which an adapter returns records
SuccessTags ==
    {"direct_scholar", "duckduckgo_scholar", "academic_terms", "scholarly_api",
     "duckduckgo_pubmed", "nih_sites", "pubmed_api", "semantic_scholar_api",
     "core_api", "enhanced_duckduckgo", "arxiv_search", "researchgate_search",
     "universal_fallback_enhanced"}

SetTypes == {"research_question", "keywords", "fallback"}

OutcomeRecorded(i) ==
    \/ (sources[i] \o ":none") \in SeqSet(failed_methods)
    \/ \E m \in SuccessTags : \E t \in SetTypes :
          (sources[i] \o ":" \o m \o "_" \o t) \in SeqSet(successful_methods)

(* C9: in a run that reaches the loop over the sources, every source of    *)
(* the list gets at least one adapter call and a recorded outcome, one for *)
(* each position that names it, whatever happened to the sources before.   *)
C9_EverySourceProcessed ==
    (RunEnded /\ SourcesQueried) =>
        \A i \in 1..Len(sources) :
            /\ CallsOf(i) # {}
            /\ OutcomeRecorded(i)
            /\ CountIn(successful_methods \o failed_methods,
                       EntriesOfSource(i)) = Cardinality(SamePositions(i))

\* the first source failed with every term set, the second one was queried
C9_Witness ==
    /\ RunEnded
    /\ Len(sources) = 2
    /\ \A k \in CallsOf(1) : callLog[k].n = 0
    /\ (sources[1] \o ":none") \in SeqSet(failed_methods)
    /\ \E k \in CallsOf(2) : callLog[k].n >= 1

(* C10 as stated: with no non-blank keyword and an absent or blank         *)
(* research question the run returns an empty Corpus and queries no        *)
(* source.                                                                 *)
C10_BlankInputsQueryNothing ==
    (CleanKeywords(keywords) = <<>> /\ Strip(research_question) = <<>>) =>
        corpus = <<>> /\ callLog = <<>>

(* C10 amended: with an empty keyword list and an absent or empty          *)
(* research question the run returns an empty Corpus and queries no        *)
(* source.                                                                 *)
C10_EmptyInputsQueryNothing ==
    (keywords = <<>> /\ research_question = <<>>) =>
        corpus = <<>> /\ callLog = <<>>

C10_Witness ==
    /\ RunEnded
    /\ keywords = <<>> /\ research_question = <<>>
    /\ sources # <<>>


-----------------------------------------------------------------------------
(* SpecAdapter: one adapter call for every source and every outcome of     *)
(* its requests                                                            *)

AdapterSources ==
    {"Google Scholar", "Google Scholar (Scholarly)", "PubMed/MEDLINE",
     "PubMed API", "Semantic Scholar", "CORE API", "DuckDuckGo Academic",
     "arXiv", "ResearchGate", "Scopus", "Web of Science", "Cochrane Library"}

InitAdapter ==
    /\ \E s \in AdapterSources : sources = <<s>>
    /\ max_results_per_source \in Caps
    /\ keywords = <<>> /\ research_question = <<>>
    /\ pc = "call"
    /\ SearcherIdle /\ FramesIdle /\ AdapterIdle
    /\ RunsIdle /\ FilterIdle /\ MatcherIdle

\* search_single_source_with_terms, and the search_* method it dispatches to
AdapterCall ==
    /\ pc = "call"
    /\ \E search_terms \in {<<>>, fallback_terms} :
       \E env \in Envs(sources[1]) :
          /\ adapter_out' = IF search_terms = <<>> THEN NoResult
                            ELSE CallAdapter(sources[1], env,
                                             max_results_per_source)
          /\ terms_out' = search_single_source_with_terms(
                              search_terms, sources[1], env,
                              max_results_per_source)
          /\ callLog' = <<[terms |-> search_terms, env |-> env]>>
    /\ pc' = "returned"
    /\ UNCHANGED <<runVars, filterVars, matcherVars>>
    /\ UNCHANGED <<keywords, research_question, sources, max_results_per_source,
                   search_terms_sets, srcIdx, setIdx, articles, method_used,
                   best_search_terms, all_articles, successful_methods,
                   failed_methods, corpus, df, df_first>>

NextAdapter == AdapterCall

SpecAdapter == InitAdapter /\ [][NextAdapter]_vars

-----------------------------------------------------------------------------
(* SpecSingle: search_single_source, the method the data collection page   *)
(* calls for one source after the other on one searcher                    *)

\* for combo in keyword_combinations[:2]: the calls with the combinations
\* from the k-th on, of n; envs[k + 1] is the environment of the k-th of
\* them.  An exception leaves the records gathered so far in `articles`
RECURSIVE ExtendedBy(_, _, _, _, _)
ExtendedBy(arts, k, n, envs, cap) ==
    IF k > n THEN [articles |-> arts, raised |-> FALSE]
    ELSE LET More(r) ==
                 IF r.raised THEN [articles |-> arts, raised |-> TRUE]
                 ELSE IF Len(arts) + Len(r.articles) >= cap
                      THEN [articles |-> arts \o r.articles, raised |-> FALSE]
                      ELSE ExtendedBy(arts \o r.articles, k + 1, n, envs, cap)
         IN More(search_google_scholar_robust(envs[k + 1], cap))

\* what a call of search_single_source returns and records: the list it
\* returns, the method tag, and the entry appended to the successful
\* ("success") or to the failed methods ("failure"), if any ("nothing")
Single(arts, method, recorded, entry) ==
    [articles |-> arts, method |-> method, recorded |-> recorded,
     entry |-> entry]

\* for article in articles: source, search_method and keywords_used are set
WithMetadata(arts, source, method, clean_keywords) ==
    [i \in 1..Len(arts) |->
        [arts[i] EXCEPT !.source = source,
                        !.search_method = method,
                        !.keywords_used = Join(clean_keywords)]]

search_single_source(kws, source, envs, cap) ==
    IF kws = <<>> THEN Single(<<>>, "none", "nothing", "")
    ELSE LET clean_keywords == CleanKeywords(kws)
             Recorded(arts, method) ==
                 Single(WithMetadata(arts, source, method, clean_keywords),
                        method,
                        IF arts # <<>> THEN "success" ELSE "failure",
                        source \o ":" \o method)
             Failed(arts) == Single(arts, "none", "failure", source \o ":error")
             Extended(first, more) ==
                 IF more.raised THEN Failed(more.articles)
                 ELSE Recorded(more.articles, first.method \o "_extended")
             Result(r) ==
                 IF r.raised THEN Failed(<<>>)
                 ELSE IF source = "Google Scholar"
                         /\ Len(r.articles) < cap \div 2
                      THEN Extended(r,
                               ExtendedBy(r.articles, 1,
                                   Len(Take(create_keyword_combinations(
                                                clean_keywords), 2)),
                                   envs, cap))
                      ELSE Recorded(r.articles, r.method)
         IN Result(CallAdapter(source, envs[1], cap))

\* the environments of the adapter calls of one call of
\* search_single_source: one, and for Google Scholar two more, in each of
\* which every request has the same outcome
SingleEnvs(source) ==
    IF source = "Google Scholar"
    THEN {<<e, [e EXCEPT !.net = [i \in DOMAIN e.net |-> o2]],
               [e EXCEPT !.net = [i \in DOMAIN e.net |-> o3]]>> :
             e \in Envs(source), o2 \in Outcomes, o3 \in Outcomes}
    ELSE {<<e>> : e \in Envs(source)}

SingleSourceLists ==
    {<<s>> : s \in AdapterSources}
    \cup { <<"arXiv", "PubMed API">>, <<"PubMed API", "arXiv", "arXiv">> }

InitSingle ==
    /\ keywords \in SearchKeywordLists
    /\ research_question = <<>>
    /\ sources \in SingleSourceLists
    /\ max_results_per_source \in Caps
    /\ pc = "single"
    /\ SearcherIdle /\ FramesIdle /\ AdapterIdle
    /\ RunsIdle /\ FilterIdle /\ MatcherIdle

\* source_articles = searcher.search_single_source(keywords, source), for
\* the source after the srcIdx-th
SearchSingleSource ==
    /\ pc = "single"
    /\ srcIdx < Len(sources)
    /\ \E envs \in SingleEnvs(sources[srcIdx + 1]) :
       \E r \in {search_single_source(keywords, sources[srcIdx + 1], envs,
                                      max_results_per_source)} :
          /\ articles' = r.articles
          /\ method_used' = r.method
          /\ successful_methods' =
                 IF r.recorded = "success"
                 THEN Append(successful_methods, r.entry)
                 ELSE successful_methods
          /\ failed_methods' =
                 IF r.recorded = "failure"
                 THEN Append(failed_methods, r.entry)
                 ELSE failed_methods
          /\ callLog' = Append(callLog, [src |-> srcIdx + 1, env |-> envs])
    /\ srcIdx' = srcIdx + 1
    /\ UNCHANGED <<runVars, filterVars, matcherVars>>
    /\ UNCHANGED <<keywords, research_question, sources, max_results_per_source,
                   pc, search_terms_sets, setIdx, best_search_terms,
                   all_articles, corpus, df, df_first, adapter_out, terms_out>>

NextSingle == SearchSingleSource

SpecSingle == InitSingle /\ [][NextSingle]_vars

AdapterInvoked == pc = "returned" /\ callLog[1].terms # <<>>

\* the tags an adapter returns together with an empty record list
FailureTagsOf(source) ==
    CASE source = "Google Scholar (Scholarly)" ->
            {"scholarly_unavailable", "scholarly_no_results", "scholarly_error"}
      [] source = "PubMed API" -> {"api_error", "no_pmids", "no_articles_parsed"}
      [] source = "Semantic Scholar" ->
            {"api_error", "no_papers", "no_valid_articles"}
      [] source = "CORE API" ->
            {"no_api_key", "api_error", "no_works", "no_valid_articles"}
      [] OTHER -> {"failed"}

(* C8 as stated: an adapter call returns normally whatever its requests    *)
(* do, and whenever it finds no record it returns the empty list with the  *)
(* method tag "failed".                                                    *)
C8_FailureTaggedFailed ==
    AdapterInvoked =>
        /\ ~adapter_out.raised /\ ~terms_out.raised
        /\ adapter_out.articles = <<>> => adapter_out.method = "failed"
        /\ terms_out.articles = <<>> => terms_out.method = "failed"

(* C8 amended: an adapter call returns normally whatever its requests do;  *)
(* whenever it finds no record it returns the empty list with a failure    *)
(* tag of that adapter ("failed" for the scraping adapters, a tag naming   *)
(* the failure for the API adapters), never the tag of a technique, and    *)
(* search_single_source_with_terms hands that pair on unchanged.           *)
C8_FailureTaggedAsFailure ==
    AdapterInvoked =>
        /\ ~adapter_out.raised /\ ~terms_out.raised
        /\ terms_out = adapter_out
        /\ adapter_out.articles = <<>>
              => adapter_out.method \in FailureTagsOf(sources[1])
        /\ adapter_out.articles # <<>> => adapter_out.method \in SuccessTags

\* an adapter whose only request raised
C8_Witness ==
    /\ AdapterInvoked
    /\ \A k \in DOMAIN callLog[1].env.net : callLog[1].env.net[k].kind = "raise"
    /\ adapter_out.articles = <<>>
    /\ adapter_out.method = "failed"


-----------------------------------------------------------------------------
(* Artifact Matcher: the "Scan for Existing PDFs" handler of the analysis  *)
(* page (src/pages/analysis.py).  A PDF is its file name; a row of the     *)
(* articles frame holds the text str() gives for its id, authors and year  *)
(* (<<>> for an id that is NaN).  A confidence is the number the code      *)
(* computes, a whole number or a Python float: [whole, frac] with frac the *)
(* 72 binary digits after the point in four groups of 18.                  *)

\* s.split(c)[0]
BeforeChar(s, c) ==
    IF \E i \in 1..Len(s) : s[i] = c
    THEN SubSeq(s, 1, (CHOOSE i \in 1..Len(s) :
                          s[i] = c /\ \A j \in 1..(i - 1) : s[j] # c) - 1)
    ELSE s

DigitValue(c) ==
    CASE c = "0" -> 0 [] c = "1" -> 1 [] c = "2" -> 2 [] c = "3" -> 3
      [] c = "4" -> 4 [] c = "5" -> 5 [] c = "6" -> 6 [] c = "7" -> 7
      [] c = "8" -> 8 [] c = "9" -> 9

\* int(digits)
RECURSIVE ParseInt(_)
ParseInt(digits) ==
    IF digits = <<>> THEN 0
    ELSE 10 * ParseInt(SubSeq(digits, 1, Len(digits) - 1))
         + DigitValue(digits[Len(digits)])

\* re.match(r'^(\d+)_', name): the digits of group 1, <<>> for no match
pdf_number_match(name) ==
    IF \E i \in 1..Len(name) :
          /\ name[i] = "_" /\ i > 1
          /\ \A j \in 1..(i - 1) : name[j] \in DIGITS
    THEN SubSeq(name, 1, (CHOOSE i \in 1..Len(name) :
                            name[i] = "_" /\ \A j \in 1..(i - 1) : name[j] # "_") - 1)
    ELSE <<>>

\* Path.stem: the name without its suffix; the suffix starts at the last
\* dot, unless that dot is the first or the last character of the name
Stem(name) ==
    LET dots == {k \in DOMAIN name : name[k] = "."}
        last == IF dots = {} THEN 0
                ELSE CHOOSE k \in dots : \A j \in dots : j <= k
    IN IF 1 < last /\ last < Len(name) THEN SubSeq(name, 1, last - 1)
       ELSE name

Chars(n) ==
    CASE n = 0 -> <<"0">> [] n = 1 -> <<"1">> [] n = 2 -> <<"2">>
      [] n = 3 -> <<"3">> [] n = 4 -> <<"4">> [] n = 5 -> <<"5">>
      [] n = 6 -> <<"6">> [] n = 7 -> <<"7">> [] n = 8 -> <<"8">>
      [] n = 9 -> <<"9">>

\* the whole number c as a confidence
Whole(c) == [whole |-> c, frac |-> <<0, 0, 0, 0>>]

Less(a, b) ==
    \/ a.whole < b.whole
    \/ /\ a.whole = b.whole
       /\ \E i \in 1..4 : /\ a.frac[i] < b.frac[i]
                          /\ \A j \in 1..(i - 1) : a.frac[j] = b.frac[j]

SameValue(a, b) == a.whole = b.whole /\ a.frac = b.frac

\* the i-th of the 72 binary digits after the point
Digit(frac, i) ==
    (frac[(i - 1) \div 18 + 1] \div 2^(17 - ((i - 1) % 18))) % 2

RECURSIVE BitLength(_)
BitLength(n) == IF n = 0 THEN 0 ELSE 1 + BitLength(n \div 2)

\* the number of zeros in front of the first digit 1 after the point
LeadingZeros(frac) ==
    IF frac = <<0, 0, 0, 0>> THEN 0
    ELSE (CHOOSE i \in 1..72 :
             Digit(frac, i) = 1 /\ \A j \in 1..(i - 1) : Digit(frac, j) = 0) - 1

\* groups that hold 2^18 or more hand the excess to the group before them
Carried(whole, frac) ==
    LET c4 == frac[4] \div 2^18
        c3 == (frac[3] + c4) \div 2^18
        c2 == (frac[2] + c3) \div 2^18
        c1 == (frac[1] + c2) \div 2^18
    IN [whole |-> whole + c1,
        frac |-> <<(frac[1] + c2) % 2^18, (frac[2] + c3) % 2^18,
                   (frac[3] + c4) % 2^18, frac[4] % 2^18>>]

\* the float nearest to whole + 0.frac (+ something below the last digit,
\* if inexact): 53 significant binary digits, a half goes to the even one
round_half_even(whole, frac, inexact) ==
    LET keep == IF whole > 0 THEN 53 - BitLength(whole)
                ELSE LeadingZeros(frac) + 53
        g == (keep - 1) \div 18 + 1
        unit == 2^(18 * g - keep)
        kept == [i \in 1..4 |-> IF i < g THEN frac[i]
                                ELSE IF i = g THEN frac[i] - (frac[i] % unit)
                                ELSE 0]
        half == Digit(frac, keep + 1) = 1
        more == inexact \/ \E i \in (keep + 2)..72 : Digit(frac, i) = 1
        odd == Digit(frac, keep) = 1
    IN IF keep >= 72 THEN [whole |-> whole, frac |-> frac]
       ELSE IF half /\ (more \/ odd)
            THEN Carried(whole, [kept EXCEPT ![g] = @ + unit])
       ELSE [whole |-> whole, frac |-> kept]

\* the first n groups of 18 binary digits of r / k after the point, for
\* r < k < 2^13, and what is left of r after them
RECURSIVE Groups(_, _, _)
Groups(r, k, n) ==
    IF n = 0 THEN [frac |-> <<>>, left |-> r]
    ELSE LET Before(rest) ==
                 [frac |-> <<(r * 2^18) \div k>> \o rest.frac,
                  left |-> rest.left]
         IN Before(Groups((r * 2^18) % k, k, n - 1))

\* m / k of two whole numbers, k > 0: the float nearest to the quotient
true_divide(m, k) ==
    LET Rounded(q) == round_half_even(m \div k, q.frac, q.left # 0)
    IN Rounded(Groups(m % k, k, 4))

\* x * n and x + n of a float x and a whole number n
float_times(x, n) ==
    LET Rounded(p) == round_half_even(p.whole, p.frac, FALSE)
    IN Rounded(Carried(x.whole * n, [i \in 1..4 |-> x.frac[i] * n]))

float_plus(x, n) == round_half_even(x.whole + n, x.frac, FALSE)

\* min(c, x) of Python: c unless x is smaller
MinWith(c, x) == IF Less(x, Whole(c)) THEN x ELSE Whole(c)


\* str(n) for a natural number
RECURSIVE Str(_)
Str(n) == IF n < 10 THEN Chars(n) ELSE Str(n \div 10) \o Chars(n % 10)

\* hashlib.md5(title.encode()).hexdigest()[:8], for the titles of the model
md5_hex8(title) ==
    CASE Text(title) = "Diabetes Risk Factors" ->
            <<"7","1","b","7","6","7","3","d">>
      [] Text(title) = "Web Search Engines" ->
            <<"2","9","2","6","3","5","2","f">>
      [] Text(title) = "air sea ice fog sun key map" ->
            <<"c","d","3","8","5","5","e","e">>
      [] Text(title) = "Risk Study" ->
            <<"7","7","5","7","f","1","8","a">>

\* get_safe_article_id(article, idx), for the row at 1-based position p
get_safe_article_id(article, p) ==
    IF article.id # <<>> THEN article.id
    ELSE IF article.title # <<>>
         THEN <<"a","r","t","i","c","l","e","_">> \o md5_hex8(article.title)
         ELSE <<"a","r","t","i","c","l","e","_">> \o Str(p - 1)

\* the stop_words of strategy 3.5
match_stop_words ==
    {"the", "and", "or", "but", "in", "on", "at", "to", "for", "of", "with",
     "by", "from", "up", "about", "into", "through", "during", "before",
     "after", "above", "below", "between", "among", "under", "within",
     "without", "against", "toward", "upon", "concerning", "per", "an", "a",
     "is", "are", "was", "were", "be", "been", "being", "have", "has", "had",
     "do", "does", "did", "will", "would", "could", "should", "may", "might",
     "can"}

\* sum(1 for word in words if word in pdf_stem)
matches_found(words, pdf_stem) ==
    Cardinality({i \in DOMAIN words : Contains(pdf_stem, words[i])})

Match(p, match_type, confidence) ==
    [idx |-> p, match_type |-> match_type, confidence |-> confidence]

\* strategy 2.5
search_bonus(pdf_stem, title) ==
    IF ContainsText(pdf_stem, "search") /\ ContainsText(title, "search")
    THEN 20 ELSE 0

\* strategy 3: the first five words of the title
first_words(pdf_stem, title, p) ==
    LET LongEnough(w) == Len(w) > 2
        title_words == SelectSeq(Take(Split(title), 5), LongEnough)
        found == matches_found(title_words, pdf_stem)
        base_confidence == 40 + found * 15
        confidence == MinWith(95, Whole(base_confidence
                                        + search_bonus(pdf_stem, title)))
    IN IF title # <<>> /\ Len(title) > 5 /\ Len(title_words) >= 1 /\ found >= 1
       THEN <<Match(p, "first_words(" \o ToString(found) \o "/"
                       \o ToString(Len(title_words)) \o ")", confidence)>>
       ELSE <<>>

\* match_ratio = matches_found / len(title_words)
\* min(85, 30 + (match_ratio * 30) + (matches_found * 5) + search_bonus),
\* added from left to right, every step rounded to a float
any_words_confidence(found, k, bonus) ==
    LET match_ratio == true_divide(found, k)
    IN MinWith(85, float_plus(float_plus(float_plus(
                       float_times(match_ratio, 30), 30), found * 5), bonus))

\* strategy 3.5: any significant word of the title
any_words(pdf_stem, title, p) ==
    LET Significant(w) == Len(w) > 2 /\ Text(w) \notin match_stop_words
        title_words == SelectSeq(Split(title), Significant)
        found == matches_found(title_words, pdf_stem)
        k == Len(title_words)
    IN IF title # <<>> /\ Len(title) > 10 /\ k >= 1 /\ found >= 1
       THEN <<Match(p, "any_words(" \o ToString(found) \o "/"
                       \o ToString(k) \o ")",
                    any_words_confidence(found, k,
                                         search_bonus(pdf_stem, title)))>>
       ELSE <<>>

\* strategy 4: last name of the first author, and the year
author_year(pdf_stem, authors, year, p) ==
    LET first_author == Strip(BeforeChar(BeforeChar(authors, ","), ";"))
        words == Split(first_author)
        author_lastname == IF \E i \in DOMAIN first_author : first_author[i] = " "
                           THEN words[Len(words)] ELSE first_author
    IN IF /\ authors # <<>> /\ year # <<>>
          /\ first_author # <<>> /\ Len(first_author) > 2
          /\ Len(author_lastname) > 3
          /\ Contains(pdf_stem, Lower(author_lastname))
          /\ Contains(pdf_stem, year)
       THEN <<Match(p, "author_year(" \o Text(author_lastname) \o "_"
                       \o Text(year) \o ")", Whole(80))>>
       ELSE <<>>

\* the number taken for the 0-based index of the row
number_is_index(number, p) == number # <<>> /\ ParseInt(number) = p - 1

\* if pdf_number_match: ... if pdf_number == idx + 1
number_is_position(number, p) == number # <<>> /\ ParseInt(number) = p

\* one turn of the loop over the articles: the matches appended for the
\* article at position p
matches_of(name, article, p) ==
    LET pdf_name == Lower(name)
        pdf_stem == Lower(Stem(name))
        article_id == get_safe_article_id(article, p)
        title == Lower(article.title)
        authors == Lower(article.authors)
        number == pdf_number_match(name)
    IN IF number_is_position(number, p)
       THEN <<Match(p, "pdf_number(" \o ToString(ParseInt(number)) \o ")",
                    Whole(98))>>
       ELSE IF Contains(pdf_name, Lower(article_id))
            THEN <<Match(p, "article_id", Whole(95))>>
       ELSE first_words(pdf_stem, title, p) \o any_words(pdf_stem, title, p)
            \o author_year(pdf_stem, authors, article.year, p)

RECURSIVE all_matches(_, _, _)
all_matches(name, rows, p) ==
    IF p > Len(rows) THEN <<>>
    ELSE matches_of(name, rows[p], p) \o all_matches(name, rows, p + 1)

\* max(matches, key=lambda x: x[3]): the first match of highest confidence
RECURSIVE first_max(_, _)
first_max(best, rest) ==
    IF rest = <<>> THEN best
    ELSE first_max(IF Less(best.confidence, rest[1].confidence)
                   THEN rest[1] ELSE best, Tail(rest))

NoMatch == [idx |-> 0, match_type |-> "no_match", confidence |-> Whole(0)]

\* try_match_pdf_to_article(pdf_path, articles): NoMatch stands for None
try_match_pdf_to_article(name, rows) ==
    LET matches == all_matches(name, rows, 1)
    IN IF matches # <<>> THEN first_max(matches[1], Tail(matches)) ELSE NoMatch


\* the rows the model draws its frames from
Article(id, title, authors, year, decision) ==
    [id |-> id, title |-> title, authors |-> authors, year |-> year,
     final_decision |-> decision, full_text_status |-> "Awaiting",
     pdf_path |-> <<>>]

DiabetesRiskFactors ==
    <<"D","i","a","b","e","t","e","s"," ","R","i","s","k"," ",
      "F","a","c","t","o","r","s">>

ArticlePool ==
    << Article(<<"1">>, DiabetesRiskFactors,
               <<"S","m","i","t","h",","," ","J","o","h","n">>,
               <<"2","0","2","0">>, "Include"),
       Article(<<"2">>,
               <<"W","e","b"," ","S","e","a","r","c","h"," ",
                 "E","n","g","i","n","e","s">>,
               <<"n","a","n">>, <<"2","0","1","9">>, "Include"),
       Article(<<"3">>,
               <<"a","i","r"," ","s","e","a"," ","i","c","e"," ","f","o","g",
                 " ","s","u","n"," ","k","e","y"," ","m","a","p">>,
               <<"L","e","e",";"," ","K","i","m">>, <<"n","a","n">>,
               "Include"),
       Article(<<>>, DiabetesRiskFactors, <<"n","a","n">>, <<"n","a","n">>,
               "Include"),
       Article(<<"5">>, <<"R","i","s","k"," ","S","t","u","d","y">>,
               <<"n","a","n">>, <<"2","0","2","0">>, "Exclude") >>

PdfPool ==
    << <<"2","_","d","i","a","b","e","t","e","s",".","p","d","f">>,
       <<"d","i","a","b","e","t","e","s",".","p","d","f">>,
       <<"r","i","s","k",".","p","d","f">>,
       <<"m","a","p",".","p","d","f">>,
       <<"s","m","i","t","h","2","0","2","0",".","p","d","f">>,
       <<"w","e","b"," ","s","e","a","r","c","h",".","p","d","f">> >>

\* the lists of at most n different elements of pool, in every order
RECURSIVE ListsOf(_, _)
ListsOf(pool, n) ==
    IF n = 0 THEN {<<>>}
    ELSE LET shorter == ListsOf(pool, n - 1)
         IN shorter \cup
            {Append(l, pool[i]) : l \in shorter, i \in DOMAIN pool}

Distinct(l) == \A i, j \in DOMAIN l : i # j => l[i] # l[j]

\* pd.read_csv(articles_file): a column of numbers that holds a NaN is read
\* as float64, and str() of a number of it ends in ".0"; the id is NaN as
\* <<>>, the year as the text nan
AsFloat(text) == text \o <<".", "0">>

read_csv(rows) ==
    LET id_is_float == \E i \in DOMAIN rows : rows[i].id = <<>>
        year_is_float == \E i \in DOMAIN rows : rows[i].year = <<"n","a","n">>
    IN [i \in DOMAIN rows |->
          [rows[i] EXCEPT
              !.id = IF id_is_float /\ @ # <<>> THEN AsFloat(@) ELSE @,
              !.year = IF year_is_float /\ @ # <<"n","a","n">>
                       THEN AsFloat(@) ELSE @]]

\* the frames load_screened_articles returns
Frames ==
    {read_csv(f) : f \in {g \in ListsOf(ArticlePool, MaxArticles) :
                              g # <<>> /\ Distinct(g)}}
PdfLists == {l \in ListsOf(PdfPool, MaxPdfs) : l # <<>> /\ Distinct(l)}

\* articles_df[articles_df['final_decision'] == 'Include']
Included(rows) ==
    LET IsIncluded(row) == row.final_decision = "Include"
    IN SelectSeq(rows, IsIncluded)

\* mask = articles_df['id'] == article.get('id'); NaN equals nothing
Mask(rows, article) ==
    {i \in DOMAIN rows : article.id # <<>> /\ rows[i].id = article.id}

Unmatched(pdf, potential_match, match_type, confidence) ==
    [pdf |-> pdf, potential_match |-> potential_match,
     match_type |-> match_type, confidence |-> confidence]

Scanned(pdf, outcome, m) ==
    [pdf |-> pdf, outcome |-> outcome, idx |-> m.idx,
     match_type |-> m.match_type, confidence |-> m.confidence]


\* if confidence >= 40
AcceptanceThreshold == 40

\* the comparison taken as "more than 30"
accepted_above_thirty(confidence) == Less(Whole(30), confidence)

accepted(confidence) == ~Less(confidence, Whole(AcceptanceThreshold))

\* the record looked up among the PDFs assigned so far
assigned_as_pdf(article_title, assigned) == FALSE

\* if article_title in assigned_articles
is_duplicate_assignment(article_title, assigned) == article_title \in assigned

\* the assignment written to every row of the frame
assign_pdf_to_all(rows, mask, pdf_path) ==
    [i \in DOMAIN rows |->
        [rows[i] EXCEPT !.full_text_status = "Acquired",
                        !.pdf_path = pdf_path]]

\* articles_df.loc[mask, 'full_text_status'] = 'Acquired'
\* articles_df.loc[mask, 'pdf_path'] = str(pdf_path)
assign_pdf(rows, mask, pdf_path) ==
    [i \in DOMAIN rows |->
        IF i \in mask
        THEN [rows[i] EXCEPT !.full_text_status = "Acquired",
                             !.pdf_path = pdf_path]
        ELSE rows[i]]

-----------------------------------------------------------------------------
(* SpecScan: the page holds a frame and a list of PDFs; the scan button is *)
(* clicked, and clicked again on the frame the scan saved                  *)

searchVars ==
    <<keywords, research_question, sources, max_results_per_source,
      search_terms_sets, srcIdx, setIdx, articles, method_used,
      best_search_terms, all_articles, successful_methods, failed_methods,
      corpus, callLog, df, df_first, adapter_out, terms_out>>

InitScan ==
    /\ articles_df \in Frames
    /\ existing_pdfs \in PdfLists
    /\ included_articles = Included(articles_df)
    /\ pdfIdx = 0 /\ assigned_articles = {} /\ unmatched_pdfs = <<>>
    /\ updated_count = 0 /\ scanLog = <<>> /\ scanNo = 0
    /\ articles_first = <<>>
    /\ keywords = <<>> /\ research_question = <<>> /\ sources = <<>>
    /\ max_results_per_source = 100
    /\ pc = "page"
    /\ SearcherIdle /\ FramesIdle /\ AdapterIdle /\ RunsIdle /\ FilterIdle

\* if included_articles.empty: ... return
no_included_articles(rows) == Included(rows) = <<>>

\* if scan_button: the page has been loaded from the saved frame, and it
\* shows the button only when the frame holds an included row
StartScan ==
    /\ pc \in {"page", "scanned"}
    /\ ~no_included_articles(articles_df)
    /\ existing_pdfs # <<>>
    /\ scanNo < MaxScans
    /\ included_articles' = Included(articles_df)
    /\ assigned_articles' = {}
    /\ unmatched_pdfs' = <<>>
    /\ updated_count' = 0
    /\ scanLog' = <<>>
    /\ pdfIdx' = 1
    /\ scanNo' = scanNo + 1
    /\ articles_first' = IF scanNo = 1 THEN articles_df ELSE articles_first
    /\ pc' = "scan"
    /\ UNCHANGED <<articles_df, existing_pdfs>>
    /\ UNCHANGED <<searchVars, runVars, filterVars>>

\* one turn of `for i, pdf_path in enumerate(existing_pdfs)`
ScanPdf ==
    /\ pc = "scan"
    /\ pdfIdx <= Len(existing_pdfs)
    /\ \E m \in {try_match_pdf_to_article(existing_pdfs[pdfIdx],
                                          included_articles)} :
       LET pdf_path == existing_pdfs[pdfIdx]
       IN IF m.idx = 0
          THEN /\ unmatched_pdfs' = Append(unmatched_pdfs,
                      Unmatched(pdf_path, <<>>, "no_match", Whole(0)))
               /\ scanLog' = Append(scanLog, Scanned(pdf_path, "no_match", m))
               /\ UNCHANGED <<articles_df, assigned_articles, updated_count>>
          ELSE LET article == included_articles[m.idx]
                   article_title == article.title
                   mask == Mask(articles_df, article)
                   first == IF mask = {} THEN 0
                            ELSE CHOOSE i \in mask : \A j \in mask : i <= j
                   current_status == IF mask = {} THEN "Awaiting"
                                     ELSE articles_df[first].full_text_status
                   current_pdf_path == IF mask = {} THEN <<>>
                                       ELSE articles_df[first].pdf_path
               IN IF is_duplicate_assignment(article_title, assigned_articles)
                  THEN /\ unmatched_pdfs' = Append(unmatched_pdfs,
                              Unmatched(pdf_path, article,
                                        "duplicate_assignment_" \o m.match_type,
                                        m.confidence))
                       /\ scanLog' = Append(scanLog,
                                         Scanned(pdf_path, "duplicate", m))
                       /\ UNCHANGED <<articles_df, assigned_articles,
                                      updated_count>>
                  ELSE IF accepted(m.confidence)
                  THEN IF current_status = "Acquired"
                          /\ current_pdf_path = pdf_path
                       THEN /\ scanLog' = Append(scanLog,
                                   Scanned(pdf_path, "already_assigned", m))
                            /\ UNCHANGED <<articles_df, assigned_articles,
                                           updated_count, unmatched_pdfs>>
                       ELSE /\ articles_df' =
                                   assign_pdf(articles_df, mask, pdf_path)
                            /\ assigned_articles' =
                                   assigned_articles \cup {article_title}
                            /\ updated_count' = updated_count + 1
                            /\ scanLog' = Append(scanLog,
                                   Scanned(pdf_path, "assigned", m))
                            /\ UNCHANGED unmatched_pdfs
                  ELSE /\ unmatched_pdfs' = Append(unmatched_pdfs,
                              Unmatched(pdf_path, article, m.match_type,
                                        m.confidence))
                       /\ scanLog' = Append(scanLog,
                                         Scanned(pdf_path, "low_confidence", m))
                       /\ UNCHANGED <<articles_df, assigned_articles,
                                      updated_count>>
    /\ pdfIdx' = pdfIdx + 1
    /\ UNCHANGED <<pc, existing_pdfs, included_articles, scanNo,
                   articles_first>>
    /\ UNCHANGED <<searchVars, runVars, filterVars>>

\* after the loop: save_screened_articles if anything was updated
FinishScan ==
    /\ pc = "scan"
    /\ pdfIdx > Len(existing_pdfs)
    /\ pc' = "scanned"
    /\ UNCHANGED matcherVars
    /\ UNCHANGED <<searchVars, runVars, filterVars>>

\* st.rerun(): the page is loaded again, what a scan showed is gone
PageReloaded ==
    /\ pc' = "page"
    /\ included_articles' = Included(articles_df')
    /\ pdfIdx' = 0 /\ assigned_articles' = {} /\ unmatched_pdfs' = <<>>
    /\ updated_count' = 0 /\ scanLog' = <<>> /\ scanNo' = 0
    /\ articles_first' = <<>>

\* articles_df['full_text_status'] = 'Awaiting'; articles_df['pdf_path'] = ""
reset_assignments(rows) ==
    [i \in DOMAIN rows |->
        [rows[i] EXCEPT !.full_text_status = "Awaiting", !.pdf_path = <<>>]]

\* if reset_button: "Reset & Re-scan All"
ResetAssignments ==
    /\ pc \in {"page", "scanned"}
    /\ ~no_included_articles(articles_df)
    /\ existing_pdfs # <<>>
    /\ articles_df' = reset_assignments(articles_df)
    /\ PageReloaded
    /\ UNCHANGED existing_pdfs
    /\ UNCHANGED <<searchVars, runVars, filterVars>>

\* the names of the files a user uploads for an article
UploadNames == { <<"r","i","s","k",".","p","d","f">> }

\* the directory listing with one more file in it, at any place; a file of
\* that name already there is overwritten
WithFile(pdfs, name) ==
    IF \E i \in DOMAIN pdfs : pdfs[i] = name THEN {pdfs}
    ELSE {SubSeq(pdfs, 1, k) \o <<name>> \o SubSeq(pdfs, k + 1, Len(pdfs)) :
             k \in 0..Len(pdfs)}

\* if pdf_file is not None: the PDF uploaded for the included article at
\* position p is stored as f"{article_id}_{pdf_file.name}" and written to
\* the rows of that id
UploadPdf ==
    /\ pc \in {"page", "scanned"}
    /\ Len(existing_pdfs) < MaxPdfs
    /\ \E p \in DOMAIN Included(articles_df) : \E name \in UploadNames :
          LET article == Included(articles_df)[p]
              file_path == get_safe_article_id(article, p) \o <<"_">> \o name
          IN /\ existing_pdfs' \in WithFile(existing_pdfs, file_path)
             /\ articles_df' = assign_pdf(articles_df,
                                          Mask(articles_df, article), file_path)
    /\ PageReloaded
    /\ UNCHANGED <<searchVars, runVars, filterVars>>

NextScan ==
    StartScan \/ ScanPdf \/ FinishScan \/ ResetAssignments \/ UploadPdf

SpecScan == InitScan /\ [][NextScan]_vars

-----------------------------------------------------------------------------
(* SpecManyWords: scans of PDFs named by words that titles of nine and of  *)
(* eighteen significant words share, where strategy 3.5 divides by the     *)
(* number of words                                                         *)

\* ' '.join(words)
RECURSIVE Spaced(_)
Spaced(words) ==
    IF Len(words) = 1 THEN words[1]
    ELSE words[1] \o <<" ">> \o Spaced(Tail(words))

Animals ==
    << <<"w","o","l","f">>, <<"l","y","n","x">>, <<"b","e","a","r">>,
       <<"d","e","e","r">>, <<"h","a","r","e">> >>

\* n words that no PDF name holds
OtherWords(n) ==
    [i \in 1..n |-> <<"q", "q">> \o Str(i)]

ManyWordsPool ==
    << Article(<<"1">>, Spaced(OtherWords(5) \o Take(Animals, 4)),
               <<"n","a","n">>, <<"n","a","n">>, "Include"),
       Article(<<"2">>, Spaced(OtherWords(13) \o Animals),
               <<"n","a","n">>, <<"n","a","n">>, "Include"),
       Article(<<"3">>, Spaced(OtherWords(5) \o Take(Animals, 1)),
               <<"n","a","n">>, <<"n","a","n">>, "Include") >>

ManyWordsPdfs ==
    << <<"w","o","l","f","_","l","y","n","x","_","b","e","a","r","_",
         "d","e","e","r","_","h","a","r","e",".","p","d","f">>,
       <<"w","o","l","f",".","p","d","f">> >>

InitManyWords ==
    /\ articles_df \in
          {read_csv(f) : f \in {g \in ListsOf(ManyWordsPool, MaxArticles) :
                                   g # <<>> /\ Distinct(g)}}
    /\ existing_pdfs \in {l \in ListsOf(ManyWordsPdfs, MaxPdfs) :
                             l # <<>> /\ Distinct(l)}
    /\ included_articles = Included(articles_df)
    /\ pdfIdx = 0 /\ assigned_articles = {} /\ unmatched_pdfs = <<>>
    /\ updated_count = 0 /\ scanLog = <<>> /\ scanNo = 0
    /\ articles_first = <<>>
    /\ keywords = <<>> /\ research_question = <<>> /\ sources = <<>>
    /\ max_results_per_source = 100
    /\ pc = "page"
    /\ SearcherIdle /\ FramesIdle /\ AdapterIdle /\ RunsIdle /\ FilterIdle

SpecManyWords == InitManyWords /\ [][NextScan]_vars


-----------------------------------------------------------------------------
(* Claims about a scan *)

ScanEnded == pc = "scanned"

\* the entries of the scan log, and of the manual review list
Processed == {scanLog[i] : i \in DOMAIN scanLog}
Reviewed == {unmatched_pdfs[i] : i \in DOMAIN unmatched_pdfs}

\* the matches the matcher keeps for the pair of a PDF and the row at p
KeptFor(pdf, p) ==
    LET matches == all_matches(pdf, included_articles, 1)
    IN {i \in DOMAIN matches : matches[i].idx = p}

NumberOf(pdf) == ParseInt(pdf_number_match(pdf))

NamesPosition(pdf) ==
    /\ pdf_number_match(pdf) # <<>>
    /\ NumberOf(pdf) \in 1..Len(included_articles)

(* C11: a PDF whose name starts with "<n>_", scanned against at least n    *)
(* rows, has the row at position n as its best match, with confidence 98   *)
(* by the pdf_number strategy, whatever the other rows are, and that is    *)
(* the only match kept for the pair.                                       *)
C11_PositionWins ==
    \A e \in Processed :
        NamesPosition(e.pdf) =>
            /\ e.idx = NumberOf(e.pdf)
            /\ SameValue(e.confidence, Whole(98))
            /\ e.match_type = "pdf_number(" \o ToString(NumberOf(e.pdf)) \o ")"
            /\ Cardinality(KeptFor(e.pdf, e.idx)) = 1

\* a numbered PDF wins against a row that matches it by title or by id
C11_Witness ==
    \E e \in Processed :
        /\ NamesPosition(e.pdf)
        /\ e.idx = 2
        /\ KeptFor(e.pdf, 1) # {}

\* the rows of the frame that hold the PDF as their assignment
HeldBy(pdf) ==
    {i \in DOMAIN articles_df :
        /\ articles_df[i].full_text_status = "Acquired"
        /\ articles_df[i].pdf_path = pdf}

IsConflict(u) ==
    /\ u.potential_match # <<>>
    /\ Len(u.match_type) > 21
    /\ \E rest \in {scanLog[i].match_type : i \in DOMAIN scanLog} :
          u.match_type = "duplicate_assignment_" \o rest

(* C12: within one scan a row is auto-assigned at most one PDF; a PDF      *)
(* scanned after that assignment whose best match is the same row, also    *)
(* with a higher confidence, goes to the review list as a duplicate        *)
(* assignment and the row keeps the PDF it was assigned.                   *)
C12_OneArtifactPerRecord ==
    \A i, j \in DOMAIN scanLog :
        (i < j /\ scanLog[i].outcome = "assigned"
               /\ scanLog[j].idx = scanLog[i].idx) =>
            /\ scanLog[j].outcome = "duplicate"
            /\ \E u \in Reviewed : u.pdf = scanLog[j].pdf /\ IsConflict(u)
            /\ \A r \in Mask(articles_df, included_articles[scanLog[i].idx]) :
                  /\ r \in HeldBy(scanLog[i].pdf)
                  /\ r \notin HeldBy(scanLog[j].pdf)

\* a later PDF of higher confidence for a row that holds its PDF
C12_Witness ==
    \E i, j \in DOMAIN scanLog :
        /\ i < j /\ scanLog[i].outcome = "assigned"
        /\ scanLog[j].idx = scanLog[i].idx
        /\ Less(scanLog[i].confidence, scanLog[j].confidence)
        /\ HeldBy(scanLog[i].pdf) # {}

BestMatchNow ==
    try_match_pdf_to_article(existing_pdfs[pdfIdx], included_articles)

(* C13: a PDF is auto-assigned only if its best match has confidence >= 40;*)
(* a PDF whose best match is below 40 is on the review list with the row   *)
(* suggested for it, and scanning it changes no row of the frame.          *)
C13_BelowThresholdReviewed ==
    /\ [](\A e \in Processed :
            /\ e.outcome = "assigned" => ~Less(e.confidence, Whole(40))
            /\ (e.idx # 0 /\ Less(e.confidence, Whole(40))) =>
                  /\ HeldBy(e.pdf) = {}
                  /\ \E u \in Reviewed :
                        /\ u.pdf = e.pdf
                        /\ u.potential_match = included_articles[e.idx])
    /\ [][(/\ pc = "scan" /\ pdfIdx <= Len(existing_pdfs)
           /\ Less(BestMatchNow.confidence, Whole(40)))
          => articles_df' = articles_df]_vars

\* a PDF whose only match is one title word out of seven
C13_Witness ==
    \E e \in Processed :
        /\ e.idx # 0
        /\ Less(e.confidence, Whole(40))
        /\ e.outcome = "low_confidence"

\* the four classes of a finished scan
IsAssigned(pdf) ==
    \/ HeldBy(pdf) # {}
    \/ \E e \in Processed : e.pdf = pdf /\ e.outcome = "assigned"
IsLowConfidence(pdf) ==
    \E u \in Reviewed :
        u.pdf = pdf /\ u.potential_match # <<>> /\ ~IsConflict(u)
IsUnmatched(pdf) ==
    \E u \in Reviewed : u.pdf = pdf /\ u.potential_match = <<>>
IsConflicted(pdf) ==
    \E u \in Reviewed : u.pdf = pdf /\ IsConflict(u)

ClassesOf(pdf) ==
    {c \in {"assigned", "low_confidence", "unmatched", "conflicted"} :
        \/ c = "assigned" /\ IsAssigned(pdf)
        \/ c = "low_confidence" /\ IsLowConfidence(pdf)
        \/ c = "unmatched" /\ IsUnmatched(pdf)
        \/ c = "conflicted" /\ IsConflicted(pdf)}

(* C14: after a scan every PDF it was given is in exactly one of the       *)
(* classes assigned, low-confidence candidate, unmatched, conflicted, also *)
(* a PDF that an earlier scan assigned to its row.                         *)
C14_CompleteClassification ==
    ScanEnded =>
        \A i \in DOMAIN existing_pdfs :
            Cardinality(ClassesOf(existing_pdfs[i])) = 1

(* C15: when two PDFs of one scan have the same row as best match with     *)
(* equal confidence at or above the threshold, neither of them is          *)
(* auto-assigned to the row.                                               *)
C15_TieIsConflict ==
    ScanEnded =>
        \A e, f \in Processed :
            (/\ e.pdf # f.pdf /\ e.idx # 0 /\ e.idx = f.idx
             /\ SameValue(e.confidence, f.confidence)
             /\ ~Less(e.confidence, Whole(40))) =>
                e.outcome # "assigned" /\ f.outcome # "assigned"


\* the fields of a row that are not its assignment
Identity(row) ==
    [id |-> row.id, title |-> row.title, authors |-> row.authors,
     year |-> row.year, final_decision |-> row.final_decision]

(* C23: no step of a scan changes the PDFs, the number or the order of the *)
(* rows, or the id, title, authors, year or decision of a row; within the  *)
(* loop the included rows handed to the matcher stay as they are; and a    *)
(* row changes only in the step that auto-assigns a PDF to it, in which    *)
(* its status becomes "Acquired" and its pdf_path that PDF.                *)
C23_OnlyAssignmentsWritten ==
    [][(pc = "scan" \/ pc' = "scan") =>
       /\ existing_pdfs' = existing_pdfs
       /\ DOMAIN articles_df' = DOMAIN articles_df
       /\ pc = "scan" => included_articles' = included_articles
       /\ \A i \in DOMAIN articles_df :
             /\ Identity(articles_df'[i]) = Identity(articles_df[i])
             /\ articles_df'[i] # articles_df[i] =>
                   /\ pc = "scan" /\ pdfIdx <= Len(existing_pdfs)
                   /\ BestMatchNow.idx # 0
                   /\ i \in Mask(articles_df,
                                 included_articles[BestMatchNow.idx])
                   /\ scanLog' = Append(scanLog,
                          Scanned(existing_pdfs[pdfIdx], "assigned",
                                  BestMatchNow))
                   /\ articles_df'[i].full_text_status = "Acquired"
                   /\ articles_df'[i].pdf_path = existing_pdfs[pdfIdx]
      ]_vars

\* a scan of two PDFs that assigned one of them to one of two rows and sent
\* the other to the review list
C23_Witness ==
    /\ ScanEnded
    /\ Len(articles_df) = 2
    /\ updated_count = 1
    /\ unmatched_pdfs # <<>>
    /\ \E i, j \in DOMAIN articles_df :
          /\ articles_df[i].full_text_status = "Acquired"
          /\ articles_df[i].pdf_path # <<>>
          /\ articles_df[j].full_text_status = "Awaiting"


(* C28: a scan made again over the same PDFs and the frame the first scan  *)
(* left gives every row the assignment it had after the first scan, also   *)
(* when two PDFs have the same row as best match.                          *)
C28_RescanChangesNothing ==
    (ScanEnded /\ scanNo >= 2) =>
        /\ DOMAIN articles_df = DOMAIN articles_first
        /\ \A i \in DOMAIN articles_df :
              /\ articles_df[i].full_text_status
                    = articles_first[i].full_text_status
              /\ articles_df[i].pdf_path = articles_first[i].pdf_path


-----------------------------------------------------------------------------
(* SpecFilter: both validity filters applied to a candidate                *)

CandidateTitles ==
    {<<"S","y","s","t","e","m","a","t","i","c"," ","r","e","s","e","a","r","c","h"," ","s","t","u","d","y">>,
     <<"A"," ","s","t","u","d","y"," ","o","f"," ","t","h","e"," ","e","f","f","e","c","t","s"," ","o","f"," ","t","e","a"," ","o","n"," ","s","l","e","e","p">>,
     <<"C","a","t"," ","v","i","d","e","o","s">>,
     <<"S","h","o","r","t">>,
     <<>>,
     <<"R","e","s","u","l","t","s",":"," ","A"," ","R","e","v","i","e","w">>,
     <<" "," ","D","a","t","a"," ","s","e","t"," "," ">>}

CandidateAbstracts ==
    {<<>>,
     <<"d","o","i",":"," ","1","0">>,
     <<"v","o","l","u","m","e",":"," ","7"," ","o","f"," ","t","h","e"," ","j","o","u","r","n","a","l">>,
     <<"n","e","w","s"," ","b","l","o","g">>}

CandidateUrls ==
    {<<"h","t","t","p","s",":","/","/","e","n",".","w","i","k","i","p","e","d","i","a",".","o","r","g","/","w","i","k","i","/","x">>,
     <<"h","t","t","p","s",":","/","/","f","a","c","e","b","o","o","k",".","c","o","m","/","p">>,
     <<"h","t","t","p","s",":","/","/","t","w","i","t","t","e","r",".","c","o","m","/","a">>,
     <<"h","t","t","p","s",":","/","/","y","o","u","t","u","b","e",".","c","o","m","/","w">>,
     <<"h","t","t","p","s",":","/","/","s","h","o","p","p","i","n","g",".","e","x","a","m","p","l","e",".","c","o","m">>,
     <<"h","t","t","p","s",":","/","/","a","r","x","i","v",".","o","r","g","/","a","b","s","/","1">>,
     <<"h","t","t","p","s",":","/","/","e","x","a","m","p","l","e",".","c","o","m">>,
     <<"h","t","t","p","s",":","/","/","m","i","t",".","e","d","u","/","x">>,
     <<"h","t","t","p","s",":","/","/","n","e","w","s",".","e","x","a","m","p","l","e",".","c","o","m">>,
     <<"h","t","t","p","s",":","/","/","p","u","b","m","e","d",".","g","o","v","/","1">>}

Candidates ==
    [title : CandidateTitles, abstract : CandidateAbstracts,
     url : CandidateUrls]

InitFilter ==
    /\ SearcherIdle /\ FramesIdle /\ AdapterIdle /\ RunsIdle /\ MatcherIdle
    /\ keywords = <<>> /\ research_question = <<>> /\ sources = <<>>
    /\ max_results_per_source = 100
    /\ pc = "candidate"
    /\ candidate \in Candidates
    /\ verdict = <<>>

CheckCandidate ==
    /\ pc = "candidate"
    /\ verdict' =
          [is_valid_article |-> is_valid_article(candidate),
           is_likely_academic |->
               is_likely_academic(candidate.title, candidate.abstract,
                                  candidate.url)]
    /\ pc' = "checked"
    /\ UNCHANGED <<searchVars, runVars, matcherVars, candidate>>

NextFilter == CheckCandidate

SpecFilter == InitFilter /\ [][NextFilter]_vars

\* the domains the specification lists as denied
Denylist == {"wikipedia", "facebook", "twitter", "youtube", "shopping"}

(* C16: a candidate whose url contains a denylisted domain (wikipedia,     *)
(* facebook, twitter, youtube, shopping) is rejected by is_valid_article   *)
(* and by is_likely_academic, whatever its title and abstract.             *)
C16_DenylistedUrlRejected ==
    (pc = "checked" /\ TermsIn(Lower(candidate.url), Denylist) # {}) =>
        /\ ~verdict.is_valid_article
        /\ ~verdict.is_likely_academic


-----------------------------------------------------------------------------
(* Claims about the records and the statistics of a run *)

\* the number of records the first k adapter calls of the run returned
RECURSIVE ReturnedBy(_)
ReturnedBy(k) == IF k = 0 THEN 0 ELSE ReturnedBy(k - 1) + callLog[k].n

\* the adapter call that returned the j-th accumulated record
ProducerOf(j) ==
    CHOOSE k \in DOMAIN callLog : ReturnedBy(k - 1) < j /\ j <= ReturnedBy(k)

TypesOfPlan == {search_terms_sets[i].type : i \in DOMAIN search_terms_sets}

(* C17: every record of the accumulated result list has a non-empty title, *)
(* the source that produced it as its source, and a method tag that is     *)
(* neither empty nor "none" and names the technique of the adapter call    *)
(* that returned the record.                                               *)
C17_RecordsNameTheirOrigin ==
    \A j \in DOMAIN all_articles :
        LET record == all_articles[j]
            call == callLog[ProducerOf(j)]
        IN /\ record.title # <<>>
           /\ record.source = sources[call.src]
           /\ record.search_method \notin {"", "none"}
           /\ \E t \in TypesOfPlan :
                 record.search_method = call.technique \o "_" \o t


(* C21: after the loop over the term sets of a source, the method tag of   *)
(* every accumulated record is the technique and the term-set type of the  *)
(* adapter call that returned the record, and its search terms are the     *)
(* terms of that call, also when several term sets returned records.       *)
C21_RecordsNameTheirCall ==
    \A j \in DOMAIN all_articles :
        LET record == all_articles[j]
            call == callLog[ProducerOf(j)]
        IN /\ record.search_method = call.technique \o "_" \o call.type
           /\ record.keywords_used = Join(search_terms_sets[call.set].terms)


\* the number of records accumulated for the source at position i by the
\* first k adapter calls of the run
RECURSIVE AccumulatedFor(_, _)
AccumulatedFor(i, k) ==
    IF k = 0 THEN 0
    ELSE AccumulatedFor(i, k - 1)
         + (IF callLog[k].src = i THEN callLog[k].n ELSE 0)

(* C29: when no adapter call made for a source returned more than          *)
(* max_results_per_source records, the records accumulated for the source  *)
(* over all of its term sets number at most max_results_per_source.        *)
C29_SourceStaysWithinCap ==
    \A i \in DOMAIN sources :
        (\A k \in CallsOf(i) : callLog[k].n <= max_results_per_source)
            => AccumulatedFor(i, Len(callLog)) <= max_results_per_source


-----------------------------------------------------------------------------
(* SpecRuns: search_all_sources called again on the searcher of a finished *)
(* run                                                                     *)

\* a further call of search_all_sources on the same searcher, with the same
\* arguments: the locals of the call are fresh, the attributes that
\* __init__ created are the ones the previous run left
SearchAgain ==
    /\ pc = "done"
    /\ run < MaxRuns
    /\ run' = run + 1
    /\ stats_first' = get_statistics(successful_methods, failed_methods)
    /\ pc' = "idle"
    /\ search_terms_sets' = <<>>
    /\ srcIdx' = 0 /\ setIdx' = 0
    /\ articles' = <<>> /\ method_used' = "none" /\ best_search_terms' = <<>>
    /\ all_articles' = <<>>
    /\ corpus' = <<>> /\ callLog' = <<>>
    /\ UNCHANGED <<keywords, research_question, sources,
                   max_results_per_source, successful_methods,
                   failed_methods, df, df_first, adapter_out, terms_out>>
    /\ UNCHANGED <<world, corpus_first>>
    /\ UNCHANGED <<filterVars, matcherVars>>

NextRuns == Next \/ SearchAgain

SpecRuns == Init /\ [][NextRuns]_vars

\* the statistics as read after the run
StatisticsNow == get_statistics(successful_methods, failed_methods)

(* C18: the statistics read after a run hold the outcomes of that run      *)
(* only: after the second run of a searcher the success list and the       *)
(* failure list together have one entry for every source of the second     *)
(* run, none of them left from the first run.                              *)
C18_StatisticsOfOneRun ==
    (RunEnded /\ run = 2) =>
        Len(StatisticsNow.successful_methods)
          + Len(StatisticsNow.failed_methods)
            = (IF SourcesQueried THEN Len(sources) ELSE 0)


(* C19: a source whose term sets were all tried is recorded as failed      *)
(* exactly when every adapter call made for it returned no record, and as  *)
(* a success exactly when some call returned a record; the term sets are   *)
(* tried in priority order, and a term set that returned nothing is        *)
(* followed by the next one.  A source listed twice is recorded once for   *)
(* each of its positions, by the calls of that position.                   *)
C19_FailedIffEverySetEmpty ==
    /\ TriedInPriorityOrder
    /\ \A i \in 1..FinishedSources :
          /\ CountIn(failed_methods, EntriesOfSource(i))
                = Cardinality({j \in SamePositions(i) :
                                  \A k \in CallsOf(j) : callLog[k].n = 0})
          /\ CountIn(successful_methods, EntriesOfSource(i))
                = Cardinality({j \in SamePositions(i) :
                                  \E k \in CallsOf(j) : callLog[k].n >= 1})
          /\ NoSourceTwice =>
                /\ RecordedFailed(i) <=> \A k \in CallsOf(i) : callLog[k].n = 0
                /\ RecordedSuccess(i)
                      <=> \E k \in CallsOf(i) : callLog[k].n >= 1
          /\ \A k \in CallsOf(i) :
                (callLog[k].n = 0 /\ callLog[k].set < Len(search_terms_sets))
                    => NextSetTried(callLog[k])

\* one source succeeded with a single record after an empty first term set,
\* another one failed after two empty term sets
C19_Witness ==
    /\ RunEnded
    /\ \E i \in 1..Len(sources) :
          /\ RecordedSuccess(i)
          /\ \E k \in CallsOf(i) : callLog[k].set = 1 /\ callLog[k].n = 0
          /\ \E k \in CallsOf(i) : callLog[k].set = 2 /\ callLog[k].n = 1
          /\ Len(all_articles) = 1
    /\ \E i \in 1..Len(sources) :
          /\ RecordedFailed(i)
          /\ \A k \in CallsOf(i) : callLog[k].n = 0
          /\ Cardinality(CallsOf(i)) >= 2


-----------------------------------------------------------------------------
(* Claims about the techniques of an adapter call *)

\* the sources whose adapter has several techniques
FirstSuccessAdapters == {"Google Scholar", "PubMed/MEDLINE"}
GatheringAdapters ==
    {"DuckDuckGo Academic", "Scopus", "Web of Science", "Cochrane Library"}

\* the number of records the first a attempts of the call produced
RECURSIVE Gathered(_)
Gathered(a) ==
    IF a = 0 THEN 0 ELSE Gathered(a - 1) + adapter_out.attempts[a].n

InOrder ==
    \A a \in DOMAIN adapter_out.attempts : adapter_out.attempts[a].technique = a

EveryEarlierAttemptFailed ==
    \A a \in DOMAIN adapter_out.attempts :
        a < Len(adapter_out.attempts) => adapter_out.attempts[a].n = 0

(* C20 as stated: in a call of an adapter with several techniques the      *)
(* techniques are attempted in order, and a technique is attempted only    *)
(* after every technique before it produced no record.                     *)
C20_NextOnlyAfterFailure ==
    (AdapterInvoked
       /\ sources[1] \in FirstSuccessAdapters \cup GatheringAdapters) =>
        InOrder /\ EveryEarlierAttemptFailed

(* C20 amended: the techniques are attempted in order; in Google Scholar   *)
(* and PubMed/MEDLINE a technique is attempted only after every technique  *)
(* before it produced no record; in DuckDuckGo Academic and the universal  *)
(* fallback a technique is attempted only while the techniques before it   *)
(* gathered fewer than cap // 2 records, or, for a further domain search   *)
(* of the universal fallback, after the domain search before it raised.    *)
C20_NextWhileTooFew ==
    AdapterInvoked =>
        /\ sources[1] \in FirstSuccessAdapters =>
              InOrder /\ EveryEarlierAttemptFailed
        /\ sources[1] \in GatheringAdapters =>
              /\ InOrder
              /\ \A a \in DOMAIN adapter_out.attempts :
                    a < Len(adapter_out.attempts) =>
                        \/ Gathered(a) < max_results_per_source \div 2
                        \/ /\ adapter_out.attempts[a].raised
                           /\ a + 1 <= FallbackDomains(sources[1])

\* DuckDuckGo Academic went on to its second strategy after the first one
\* had produced a record
C20_Witness ==
    /\ AdapterInvoked
    /\ sources[1] = "DuckDuckGo Academic"
    /\ Len(adapter_out.attempts) = 2
    /\ adapter_out.attempts[1].n = 1
    /\ adapter_out.attempts[2].n >= 1
    /\ Len(adapter_out.articles) >= 2

-----------------------------------------------------------------------------
(* Claims about the records an adapter passes on *)

\* a title the validations accept: 10 to 300 characters
HasUsableTitle(entry) ==
    entry.title # <<>> /\ Len(entry.title) >= 10 /\ Len(entry.title) <= 300

(* C25: the scholarly adapter passes on every publication it read that has *)
(* a usable title, up to its limit of min(cap, 50) records, whether or not *)
(* the publication names an author: no record is dropped because its       *)
(* author is missing.                                                      *)
C25_NoRecordDroppedForMissingAuthor ==
    (/\ AdapterInvoked
     /\ sources[1] = "Google Scholar (Scholarly)"
     /\ callLog[1].env.scholarly_available
     /\ callLog[1].env.net[1].kind = "ok") =>
        LET read == Hits(sources[1], 1, callLog[1].env.net[1])
            limit == IF max_results_per_source < 50
                     THEN max_results_per_source ELSE 50
        IN adapter_out.articles
             = Take(Records(SelectSeq(read, HasUsableTitle)), limit)


-----------------------------------------------------------------------------
(* SpecOrder: the search made again with the sources in another order,     *)
(* against sources that answer a query the same way every time             *)

OrderOutcomes ==
    {[kind |-> "raise", n |-> 0], [kind |-> "ok", n |-> 1],
     [kind |-> "ok", n |-> 2]}

OrderEnvs(source) ==
    {[net |-> net, scholarly_available |-> TRUE, core_api_key |-> TRUE] :
        net \in [1..Requests(source) -> OrderOutcomes]}

\* the ways to fix an answer for every query of a set of (source, terms)
WorldsOver(queries) ==
    {w \in [queries -> UNION {OrderEnvs(q[1]) : q \in queries}] :
        \A q \in queries : w[q] \in OrderEnvs(q[1])}

OrderSourceLists ==
    { <<"ResearchGate", "PubMed/MEDLINE">>,
      <<"arXiv", "ResearchGate", "Semantic Scholar">> }

OrderInputs ==
    { [kws |-> <<TypedKeyword(1)>>, rq |-> <<"d","a","d">>],
      [kws |-> <<TypedKeyword(1), TypedKeyword(2)>>, rq |-> <<>>] }

\* the queries of a run: every source with the terms of every set of the plan
QueriesOf(srcs, plan) ==
    {<<srcs[i], plan[j].terms>> : i \in DOMAIN srcs, j \in DOMAIN plan}

InitOrder ==
    /\ \E input \in OrderInputs :
          /\ keywords = input.kws
          /\ research_question = input.rq
    /\ sources \in OrderSourceLists
    /\ max_results_per_source \in Caps
    /\ pc = "idle"
    /\ SearcherIdle /\ FramesIdle /\ AdapterIdle /\ FilterIdle /\ MatcherIdle
    /\ run = 1 /\ stats_first = <<>> /\ corpus_first = <<>>
    /\ \E plan \in {prepare_search_terms(keywords, research_question)} :
       \E queries \in {QueriesOf(sources, plan)} :
          world \in WorldsOver(queries)

\* the orders of a list other than its own
Reorderings(list) ==
    {p \in [DOMAIN list -> SeqSet(list)] :
        /\ p # list
        /\ \A i, j \in DOMAIN list : i # j => p[i] # p[j]}

\* search_all_sources called again with the same keywords and research
\* question and the sources in another order
SearchReordered ==
    /\ pc = "done"
    /\ run < MaxRuns
    /\ run' = run + 1
    /\ sources' \in Reorderings(sources)
    /\ corpus_first' = IF run = 1 THEN corpus ELSE corpus_first
    /\ stats_first' = get_statistics(successful_methods, failed_methods)
    /\ pc' = "idle"
    /\ search_terms_sets' = <<>>
    /\ srcIdx' = 0 /\ setIdx' = 0
    /\ articles' = <<>> /\ method_used' = "none" /\ best_search_terms' = <<>>
    /\ all_articles' = <<>>
    /\ corpus' = <<>> /\ callLog' = <<>>
    /\ UNCHANGED <<keywords, research_question, max_results_per_source,
                   successful_methods, failed_methods, df, df_first,
                   adapter_out, terms_out, world>>
    /\ UNCHANGED <<filterVars, matcherVars>>

NextOrder == Next \/ SearchReordered

SpecOrder == InitOrder /\ [][NextOrder]_vars

TitlesOf(frame) == {frame[i].title : i \in DOMAIN frame}

(* C24: when every source answers a query (source, terms) the same way     *)
(* every time, the Corpus returned for a list of sources and the Corpus    *)
(* returned for any other order of that list hold the same set of titles.  *)
C24_SameTitlesInAnyOrder ==
    (RunEnded /\ run >= 2) => TitlesOf(corpus) = TitlesOf(corpus_first)

\* the two orders give the same titles, and a title that two sources
\* returned is attributed to another source
C24_Witness ==
    /\ RunEnded /\ run >= 2
    /\ Len(corpus) >= 2
    /\ \E i \in DOMAIN corpus : \E j \in DOMAIN corpus_first :
          /\ corpus[i].title = corpus_first[j].title
          /\ corpus[i].source # corpus_first[j].source

-----------------------------------------------------------------------------
(* SpecStored: the uploads directory holds files that PDFDownloader stored *)
(* for included rows of the frame, and the scan button is clicked          *)

\* re.sub(r'[<>:"/\\|?*]', '_', filename), strip, at most 100 characters
sanitize_filename(filename) ==
    Take(Strip([i \in DOMAIN filename |->
                   IF filename[i] \in {"<", ">", ":", "\"", "/", "\\", "|",
                                       "?", "*"}
                   THEN "_" ELSE filename[i]]), 100)

\* download_pdf: f"{article_id}_{self.sanitize_filename(title)}.pdf", called
\* with str(article['id'])
download_name(article) ==
    (IF article.id = <<>> THEN <<"n","a","n">> ELSE article.id)
    \o <<"_">> \o sanitize_filename(article.title) \o <<".","p","d","f">>

\* the files stored for rows of a list, in every order
StoredLists(rows) ==
    {l \in ListsOf([i \in DOMAIN rows |-> download_name(rows[i])], MaxPdfs) :
        l # <<>> /\ Distinct(l)}

InitStored ==
    /\ articles_df \in {f \in Frames : Included(f) # <<>>}
    /\ existing_pdfs \in StoredLists(Included(articles_df))
    /\ included_articles = Included(articles_df)
    /\ pdfIdx = 0 /\ assigned_articles = {} /\ unmatched_pdfs = <<>>
    /\ updated_count = 0 /\ scanLog = <<>> /\ scanNo = 0
    /\ articles_first = <<>>
    /\ keywords = <<>> /\ research_question = <<>> /\ sources = <<>>
    /\ max_results_per_source = 100
    /\ pc = "page"
    /\ SearcherIdle /\ FramesIdle /\ AdapterIdle /\ RunsIdle /\ FilterIdle

SpecStored == InitStored /\ [][NextScan]_vars

(* C27: a file stored for an included row under "<id>_<title>.pdf" has     *)
(* that row as its best match in a scan, for every frame and every subset  *)
(* of it that is marked Include.                                           *)
C27_StoredFileFindsItsRecord ==
    \A e \in Processed : \A p \in DOMAIN included_articles :
        e.pdf = download_name(included_articles[p]) => e.idx = p

-----------------------------------------------------------------------------
(* SpecLive: a search run with a long keyword list, in which every step of *)
(* search_all_sources that can be taken is taken: the loops are sequential *)
(* code, and every adapter call returns                                    *)

LiveKeywordLists ==
    { <<>>, [i \in 1..MaxKeywords |-> <<"k", KeywordTags[i]>>] }

LiveSourceLists == { <<>>, <<"arXiv">>, <<"arXiv", "ResearchGate">> }

InitLive ==
    /\ keywords \in LiveKeywordLists
    /\ research_question \in {<<>>, <<"d","a","d">>}
    /\ sources \in LiveSourceLists
    /\ max_results_per_source \in Caps
    /\ pc = "idle"
    /\ SearcherIdle /\ FramesIdle /\ AdapterIdle
    /\ RunsIdle /\ FilterIdle /\ MatcherIdle

\* the loop of search_all_sources runs on: a turn of the loop that can be
\* taken is taken, and a source whose term sets are through is finished
SpecLive ==
    InitLive /\ [][Next]_vars /\ WF_vars(TryTermSet) /\ WF_vars(FinishSource)

\* no pair of a source and a term set is called twice
OneCallPerPair ==
    \A k, m \in DOMAIN callLog :
        (callLog[k].src = callLog[m].src /\ callLog[k].set = callLog[m].set)
            => k = m

\* the steps a run has left at most: the turns of the two loops, then the
\* processing of the results; a plan holds at most 5 term sets, the research
\* question set and 4 keyword combinations
StepsLeft ==
    CASE pc = "idle"    -> Len(sources) * (5 + 2) + 3
      [] pc = "try"     -> (Len(sources) - srcIdx) * (Len(search_terms_sets) + 2)
                           + (Len(search_terms_sets) + 1 - setIdx) + 2
      [] pc = "process" -> 1
      [] OTHER          -> 0

(* C30: a run makes at most one adapter call for a pair of a source and a  *)
(* term set, hence at most 5 calls for a source; every step of it brings   *)
(* the end nearer, so it takes finitely many steps; and from the loop over *)
(* the sources it comes to the processing of the results, with the last    *)
(* source finished.                                                        *)
C30_SearchTerminates ==
    /\ [](/\ OneCallPerPair
          /\ Len(search_terms_sets) <= 5
          /\ \A i \in DOMAIN sources : Cardinality(CallsOf(i)) <= 5
          /\ StepsLeft \in Nat
          /\ pc = "process" => srcIdx = Len(sources))
    /\ [][StepsLeft' < StepsLeft]_vars
    /\ [](pc = "try" => <>(pc = "process"))

\* a finished run over two sources, one of which was called with five term
\* sets
C30_Witness ==
    /\ RunEnded
    /\ Len(sources) = 2
    /\ Len(search_terms_sets) = 5
    /\ \E i \in DOMAIN sources : Cardinality(CallsOf(i)) = 5
    /\ corpus # <<>>

====
